---- MODULE Spec2Model ----
(***************************************************************************)
(* The ACE/FERS autonomous refactor pipeline of ai4ohs-hybrid:             *)
(*   ACEExecutor.run_full_refactor_cycle (ace_executor.py) and             *)
(*   FullEvolutionaryRefactorPlanner.plan_evolution                        *)
(*   (fers_refactor_planner.py), with the ApprovalManager queue.           *)
(*                                                                         *)
(* Text is modelled concretely as a run-length encoded string: a sequence  *)
(* of runs [c |-> character class, n |-> count].  Character classes:       *)
(*   "n" newline (the only whitespace of the alphabet),                    *)
(*   "x" a character of ordinary code,                                     *)
(*   "D" a character of a top-level "def name(...):" header,               *)
(*   "q" a quote character, "t" a character of docstring prose,            *)
(*   "f" a character of a "from ..." line, "i" of an "import ..." line,    *)
(*   "y" a character written by the rewrite collaborator.                  *)
(***************************************************************************)
EXTENDS Integers, Sequences, FiniteSets, TLC

\* ------------------------------------------------------------------------
\* Program constants
\* ------------------------------------------------------------------------
SAFE_FN_TOKEN_LIMIT == 1200
SAFE_FILE_TOKEN_LIMIT == 3000
CHUNK_SIZE == 1000
CHUNK_OVERLAP == 100
AGGRESSIVE_LIMIT == 600
FN_SCAN_LIMIT == 3
DEFAULT_THRESHOLD == 3
DEFAULT_MAX_FILES == 8
DEFAULT_MAX_TEST_RUNTIME == 180

\* Bounds of the model
MaxRuns == 2
MaxUpdates == 5
MaxSelections == 2
MaxRecords == 1
MaxApplications == 2
MaxPathDepth == 6
MaxClock == 3

None == "None"

Max(a, b) == IF a >= b THEN a ELSE b

\* ------------------------------------------------------------------------
\* Run-length encoded text
\* ------------------------------------------------------------------------
Run(c, n) == [c |-> c, n |-> n]

RECURSIVE Norm(_)
Norm(t) ==
  IF t = <<>> THEN <<>>
  ELSE LET h == Head(t)
           r == Norm(Tail(t))
       IN IF h.n <= 0 THEN r
          ELSE IF r # <<>> /\ Head(r).c = h.c
               THEN <<Run(h.c, h.n + Head(r).n)>> \o Tail(r)
               ELSE <<h>> \o r

Cat(a, b) == Norm(a \o b)

RECURSIVE TLen(_)
TLen(t) == IF t = <<>> THEN 0 ELSE Head(t).n + TLen(Tail(t))

\* text[k:]
RECURSIVE Drop(_, _)
Drop(t, k) ==
  IF k <= 0 \/ t = <<>> THEN t
  ELSE IF Head(t).n <= k THEN Drop(Tail(t), k - Head(t).n)
       ELSE <<Run(Head(t).c, Head(t).n - k)>> \o Tail(t)

\* text[:k]
RECURSIVE Take(_, _)
Take(t, k) ==
  IF k <= 0 \/ t = <<>> THEN <<>>
  ELSE IF Head(t).n <= k THEN <<Head(t)>> \o Take(Tail(t), k - Head(t).n)
       ELSE <<Run(Head(t).c, k)>>

\* text[i:j]
Slice(t, i, j) == Take(Drop(t, i), j - i)

NL(k) == <<Run("n", k)>>

\* str.lstrip / str.rstrip / str.strip: newline is the alphabet's whitespace
LStrip(t) == IF t # <<>> /\ Head(t).c = "n" THEN Tail(t) ELSE t
RStrip(t) == IF t # <<>> /\ t[Len(t)].c = "n" THEN SubSeq(t, 1, Len(t) - 1) ELSE t
Strip(t) == RStrip(LStrip(t))

EndsWithNL(t) == t # <<>> /\ t[Len(t)].c = "n"

RECURSIVE JoinAll(_)
JoinAll(ts) == IF ts = <<>> THEN <<>> ELSE Cat(Head(ts), JoinAll(Tail(ts)))

\* ------------------------------------------------------------------------
\* Helper functions of fers_refactor_planner.py
\* ------------------------------------------------------------------------
estimate_tokens(text) ==
  IF text = <<>> THEN 0 ELSE Max(1, TLen(text) \div 4)

RECURSIVE ChunkFrom(_, _, _, _)
ChunkFrom(text, size, step, i) ==
  IF i >= TLen(text) THEN <<>>
  ELSE <<Slice(text, i, i + size)>> \o
       (IF i + size >= TLen(text) THEN <<>>
        ELSE ChunkFrom(text, size, step, i + step))

chunk_text(text, size, overlap) ==
  IF text = <<>> THEN <<>>
  ELSE ChunkFrom(text, size, Max(1, size - overlap), 0)

\* ------------------------------------------------------------------------
\* _extract_functions: scan of "\n" + content for top-level def headers
\* ------------------------------------------------------------------------
\* offsets (in s) of the newline that starts each header match
RECURSIVE HeaderStarts(_, _, _)
HeaderStarts(s, k, off) ==
  IF k > Len(s) THEN <<>>
  ELSE LET here == IF s[k].c = "n" /\ k < Len(s) /\ s[k + 1].c = "D"
                   THEN <<off + s[k].n - 1>> ELSE <<>>
       IN here \o HeaderStarts(s, k + 1, off + s[k].n)

function_spans(s, starts) ==
  [i \in 1..Len(starts) |->
     [name |-> i,
      body |-> Slice(s, starts[i],
                     IF i + 1 <= Len(starts) THEN starts[i + 1] ELSE TLen(s)),
      start |-> starts[i],
      end |-> IF i + 1 <= Len(starts) THEN starts[i + 1] ELSE TLen(s)]]

scan_functions(s) == function_spans(s, HeaderStarts(s, 1, 0))

extract_functions(content) == scan_functions(Cat(NL(1), content))

\* ------------------------------------------------------------------------
\* _minimal_autopatch
\* ------------------------------------------------------------------------
DOCSTRING ==
  <<Run("q", 3), Run("t", 28), Run("n", 1), Run("t", 62), Run("n", 1),
    Run("q", 3), Run("n", 2)>>

\* str.splitlines
RECURSIVE SplitAcc(_, _)
SplitAcc(t, cur) ==
  IF t = <<>> THEN (IF cur = <<>> THEN <<>> ELSE <<cur>>)
  ELSE IF Head(t).c = "n"
       THEN <<cur>> \o [j \in 1..(Head(t).n - 1) |-> <<>>] \o SplitAcc(Tail(t), <<>>)
       ELSE SplitAcc(Tail(t), cur \o <<Head(t)>>)

splitlines(t) == SplitAcc(t, <<>>)

\* "\n".join(lines)
RECURSIVE JoinNL(_)
JoinNL(ls) ==
  IF ls = <<>> THEN <<>>
  ELSE IF Len(ls) = 1 THEN Head(ls)
       ELSE Cat(Cat(Head(ls), NL(1)), JoinNL(Tail(ls)))

StartsWithDocstring(t) == t # <<>> /\ Head(t).c = "q" /\ Head(t).n >= 3

\* l.startswith("import ") or l.startswith("from ")
IsImport(l) ==
  l # <<>> /\ (   (Head(l).c = "i" /\ Head(l).n >= 7)
               \/ (Head(l).c = "f" /\ Head(l).n >= 5))

\* code-point order of the alphabet's characters
CharRank(c) ==
  CASE c = "n" -> 1 [] c = "q" -> 2 [] c = "D" -> 3 [] c = "f" -> 4
    [] c = "i" -> 5 [] c = "t" -> 6 [] c = "x" -> 7 [] OTHER -> 8

\* a < b as Python compares str
RECURSIVE TLess(_, _)
TLess(a, b) ==
  IF b = <<>> THEN FALSE
  ELSE IF a = <<>> THEN TRUE
  ELSE IF Head(a).c # Head(b).c THEN CharRank(Head(a).c) < CharRank(Head(b).c)
  ELSE LET m == IF Head(a).n <= Head(b).n THEN Head(a).n ELSE Head(b).n
       IN TLess(Drop(a, m), Drop(b, m))

\* sorted(set(lines))
RECURSIVE SortSet(_)
SortSet(S) ==
  IF S = {} THEN <<>>
  ELSE LET m == CHOOSE a \in S : \A b \in S \ {a} : TLess(a, b)
       IN <<m>> \o SortSet(S \ {m})

SelectLines(ls, keepImports) ==
  SelectSeq(ls, LAMBDA l : IsImport(l) = keepImports)

\* step 3: exactly one "\n" is appended when the text does not end with one
ensure_trailing_newline(c2) == IF EndsWithNL(c2) THEN c2 ELSE Cat(c2, NL(1))

\* step 2 on the lines of c1: sorted, de-duplicated imports first, then an
\* empty line, then every other line
hoist_imports(c1, lines) ==
  IF SelectLines(lines, TRUE) # <<>>
  THEN JoinNL(SortSet({l \in {lines[j] : j \in 1..Len(lines)} : IsImport(l)})
              \o << <<>> >> \o SelectLines(lines, FALSE))
  ELSE c1

sort_imports(c1) == hoist_imports(c1, splitlines(c1))

\* step 1: the module docstring is prepended unless the text starts with one
ensure_docstring(content) ==
  IF StartsWithDocstring(LStrip(content)) THEN content
  ELSE Cat(DOCSTRING, content)

minimal_autopatch_text(content) ==
  ensure_trailing_newline(sort_imports(ensure_docstring(content)))

Patch(rel, code) == [file |-> rel, new_code |-> code]
\* stands for Python's None where a patch or a text is expected
NoPatch == [file |-> <<>>, new_code |-> <<>>]

minimal_autopatch(rel, content) == Patch(rel, minimal_autopatch_text(content))

\* ------------------------------------------------------------------------
\* State
\* ------------------------------------------------------------------------
VARIABLES
  main,            \* project tree: path -> File(text) or Absent
  planner,         \* FullEvolutionaryRefactorPlanner limits read from config
  memory,          \* EvolutionMemory.data: [files, functions]
  memory_file,     \* the file EvolutionMemory.save writes
  rel_files,       \* plan_evolution: normalised candidate list
  idx,             \* plan_evolution: next candidate to process (1-based)
  patches,         \* plan_evolution: patches produced so far
  plan_pc,         \* "idle" | "loop" | "returned" | "raised"
  unreadable,      \* files whose read_text raises OSError (permission denied)
  candidate_files, \* plan_evolution: the argument of the call in progress
  reads,           \* history: per processed candidate, what happened to it
  all_failed,      \* history: every collaborator call of this plan raised
                   \* LlamaCPPError
  pc,              \* run_full_refactor_cycle: "idle" | "planning" | "sandbox" |
                   \* "apply" | "pytest" | "tested" | "done" | "raised"
  dry_run,         \* the argument of the run in progress
  auto_apply,      \* ACEExecutor.auto_apply (ACE_ALLOW_AUTO_APPLY)
  ace_cfg,         \* the ace block of the configuration
  auto_merge_threshold, \* ACEExecutor.auto_merge_threshold
  target_files,    \* the run's candidates (_discover_target_files)
  run_patches,     \* the run's patches (_plan_patches)
  sandbox,         \* the sandbox copy of the tree
  applied_in_sandbox,
  proc,            \* what the test runner of the run in progress did
  test_ok,
  test_output,
  result,          \* the dict the run returned
  state_file,      \* .ace_state.json
  processed_log,   \* logs/ace/processed_files.jsonl, one record per line
  approval_queue,  \* ApprovalManager: the persisted approval_queue
  runs,            \* number of runs started
  outcomes,        \* history: the arguments of every update so far
  hist,            \* history: what the stores held when the run started
  selections,      \* history: the strategy selections made so far
  autopatch_runs,  \* history: a text and the results of applying
                   \* _minimal_autopatch to it again and again
  project,         \* the project directory: the set of its paths, each a
                   \* sequence of names relative to project_root
  sandbox_dir,     \* ACEExecutor.sandbox_dir, relative to project_root
  prepare_result,  \* "none" | "ok" | "raised": how the last _prepare_sandbox ended
  prepares,        \* number of _prepare_sandbox calls so far
  settings,        \* config/settings.yaml: its content and its mtime
  raw,             \* ACEConfig.raw
  last_loaded_timestamp, \* ACEConfig.last_loaded_timestamp
  clock,           \* the time of the latest edit of settings.yaml
  profile_override, \* --profile as given on the command line, or "none"
  selected,        \* the profile apply_profile merged into raw, "none" after
                   \* a load that no apply_profile followed
  cfg_pc,          \* "idle" between two cycles, "cycle" once a cycle has
                   \* synchronised its configuration
  broken,          \* the stores whose writes can fail
  chunk_in,        \* chunk_text: the text of the call in progress
  chunk_i,         \* chunk_text: the loop variable i
  chunk_list,      \* chunk_text: the chunks appended so far
  chunk_pc,        \* chunk_text: "idle" | "loop" | "returned"
  state_written,   \* how much of the record of state_file is in the
                   \* file: "whole" | "empty" | "partial"
  save_pc,         \* the write of _save_state: "idle" | "open" | "write" | "close"
  pending,         \* the state the update in progress is saving
  prev_state,      \* history: the record in the file before that update
  interrupted,     \* history: the process was killed during that update
  state_json,      \* the JSON value state_file holds when its text parses:
                   \* "record" | "no_counter" | "bad_counter" | "array"
  update_result,   \* how the last _update_merge_state ended:
                   \* "none" | "returned" | "raised"
  restarts,        \* number of times the planner was constructed again
  selected_ever,   \* the files some cycle had among its candidates
  chunk_size,      \* the size chunk_text was called with
  chunk_overlap    \* the overlap chunk_text was called with

\* a file of the tree: present with a text, or absent
File(text) == [exists |-> TRUE, text |-> text]
Absent == [exists |-> FALSE, text |-> <<>>]

\* ------------------------------------------------------------------------
\* EvolutionMemory
\* ------------------------------------------------------------------------
NewStats == [success |-> 0, fail |-> 0, last_mode |-> None, last_error |-> None]

file_stats(mem, rel) ==
  IF rel \in DOMAIN mem.files THEN mem.files[rel] ELSE NewStats

record_file_pass(mem, rel, mode) ==
  LET st == file_stats(mem, rel)
      st2 == [st EXCEPT !.success = @ + 1,
                        !.last_mode = IF mode # None THEN mode ELSE @]
  IN [mem EXCEPT !.files = (rel :> st2) @@ mem.files]

record_file_fail(mem, rel, reason) ==
  LET st == file_stats(mem, rel)
      st2 == [st EXCEPT !.fail = @ + 1, !.last_error = reason]
  IN [mem EXCEPT !.files = (rel :> st2) @@ mem.files]

record_function_skip(mem, rel, fn_name, reason) ==
  LET key == <<rel, fn_name>>
      old == IF key \in DOMAIN mem.functions THEN mem.functions[key].skips ELSE 0
  IN [mem EXCEPT !.functions =
        (key :> [skips |-> old + 1, last_reason |-> reason]) @@ mem.functions]

\* ------------------------------------------------------------------------
\* The rewrite collaborator (llama_cpp) and _extract_code_block
\* ------------------------------------------------------------------------
\* What one call does: raise LlamaCPPError ("fail"), return the text it was
\* given, return nothing, return a rewritten text, or raise an exception that
\* is no LlamaCPPError ("crash").
Responses == {"fail", "echo", "empty", "changed", "crash"}

\* the reply to a call whose prompt embeds `payload`
llama_raw(kind, payload) ==
  CASE kind = "echo" -> payload
    [] kind = "empty" -> NL(1)
    [] OTHER -> Cat(Cat(NL(1), Strip(payload)), <<Run("y", 4), Run("n", 1)>>)

\* without a fence the whole reply is stripped; a fenced reply gives the
\* same strip of its body
extract_code_block(reply) == Strip(reply)

\* ------------------------------------------------------------------------
\* Strategies.  Each returns [patch, mem]; resp maps a call site to what the
\* collaborator does there: <<0,1>> whole file, <<0,2>> small patch,
\* <<k,0>> function k, <<k,c>> chunk c of function k.
\* ------------------------------------------------------------------------
\* a variant that compares with < where the code has <=
select_mode_strict(tokens) ==
  IF tokens < AGGRESSIVE_LIMIT THEN "AGGRESSIVE"
  ELSE IF tokens < planner.safe_file_token_limit THEN "SMALL_PATCH"
  ELSE "FUNCTION_OR_CHUNK"

select_mode(tokens) ==
  IF tokens <= AGGRESSIVE_LIMIT THEN "AGGRESSIVE"
  ELSE IF tokens <= planner.safe_file_token_limit THEN "SMALL_PATCH"
  ELSE "FUNCTION_OR_CHUNK"

\* a rewrite that is empty or equal to the text up to whitespace is no rewrite
is_noop(new_code, content) ==
  new_code = <<>> \/ Strip(new_code) = Strip(content)

full_file_result(mem, rel, content, new_code) ==
  IF is_noop(new_code, content)
  THEN [patch |-> NoPatch, mem |-> mem, exc |-> FALSE]
  ELSE [patch |-> Patch(rel, new_code), mem |-> mem, exc |-> FALSE]

refactor_full_file(mem, rel, content, resp) ==
  IF estimate_tokens(content) > planner.safe_file_token_limit
  THEN [patch |-> NoPatch, mem |-> mem, exc |-> FALSE]
  ELSE IF resp[<<0, 1>>] = "crash"
  THEN [patch |-> NoPatch, mem |-> mem, exc |-> TRUE]
  ELSE IF resp[<<0, 1>>] = "fail"
  THEN [patch |-> NoPatch, mem |-> record_file_fail(mem, rel, "llama_error"),
        exc |-> FALSE]
  ELSE full_file_result(mem, rel, content,
                        extract_code_block(llama_raw(resp[<<0, 1>>], content)))

small_patch_result(mem, rel, content, new_code) ==
  IF is_noop(new_code, content)
  THEN [patch |-> minimal_autopatch(rel, content), mem |-> mem, exc |-> FALSE]
  ELSE [patch |-> Patch(rel, new_code), mem |-> mem, exc |-> FALSE]

refactor_small_patch(mem, rel, content, resp) ==
  IF estimate_tokens(content) > planner.safe_file_token_limit
  THEN [patch |-> minimal_autopatch(rel, content), mem |-> mem, exc |-> FALSE]
  ELSE IF resp[<<0, 2>>] = "crash"
  THEN [patch |-> NoPatch, mem |-> mem, exc |-> TRUE]
  ELSE IF resp[<<0, 2>>] = "fail"
  THEN [patch |-> minimal_autopatch(rel, content), mem |-> mem, exc |-> FALSE]
  ELSE small_patch_result(mem, rel, content,
                          extract_code_block(llama_raw(resp[<<0, 2>>], content)))

\* [ok, body, mem, exc]; ok = FALSE stands for None: the function is left alone
body_result(mem, fn_body, new_body) ==
  IF is_noop(new_body, fn_body)
  THEN [ok |-> FALSE, body |-> <<>>, mem |-> mem, exc |-> FALSE]
  ELSE [ok |-> TRUE, body |-> new_body, mem |-> mem, exc |-> FALSE]

refactor_function_body(mem, rel, fn, resp) ==
  IF estimate_tokens(fn.body) > planner.safe_fn_token_limit
  THEN [ok |-> FALSE, body |-> <<>>, exc |-> FALSE,
        mem |-> record_function_skip(mem, rel, fn.name, "too_large")]
  ELSE IF resp[<<fn.name, 0>>] = "crash"
  THEN [ok |-> FALSE, body |-> <<>>, mem |-> mem, exc |-> TRUE]
  ELSE IF resp[<<fn.name, 0>>] = "fail"
  THEN [ok |-> FALSE, body |-> <<>>, exc |-> FALSE,
        mem |-> record_function_skip(mem, rel, fn.name, "llama_error")]
  ELSE body_result(mem, fn.body,
                   extract_code_block(llama_raw(resp[<<fn.name, 0>>], fn.body)))

\* a chunk over the function budget is kept without a call
ChunkCalled(ch) == estimate_tokens(ch) <= planner.safe_fn_token_limit

rewrite_chunk(fn, c, ch, resp) ==
  IF ~ChunkCalled(ch) THEN ch
  ELSE IF resp[<<fn.name, c>>] = "fail" THEN ch
  ELSE extract_code_block(llama_raw(resp[<<fn.name, c>>], ch))

\* "".join(new_chunks) compared with the body
chunked_result(mem, fn_body, new_body) ==
  IF Strip(new_body) = Strip(fn_body)
  THEN [ok |-> FALSE, body |-> <<>>, mem |-> mem, exc |-> FALSE]
  ELSE [ok |-> TRUE, body |-> new_body, mem |-> mem, exc |-> FALSE]

rewrite_chunks(mem, fn, chunks, resp) ==
  IF \E c \in 1..Len(chunks) :
        ChunkCalled(chunks[c]) /\ resp[<<fn.name, c>>] = "crash"
  THEN [ok |-> FALSE, body |-> <<>>, mem |-> mem, exc |-> TRUE]
  ELSE chunked_result(mem, fn.body,
         JoinAll([c \in 1..Len(chunks) |-> rewrite_chunk(fn, c, chunks[c], resp)]))

refactor_chunked_large_function(mem, rel, fn, resp) ==
  rewrite_chunks(mem, fn, chunk_text(fn.body, CHUNK_SIZE, CHUNK_OVERLAP), resp)

\* updated[:start] + "\n" + new_body + "\n" + updated[end:]
splice(updated, fn, new_body) ==
  Cat(Cat(Cat(Take(updated, fn.start), NL(1)), Cat(new_body, NL(1))),
      Drop(updated, fn.end))

\* the end of one iteration of "for fn in funcs[:3]", r the function's result
apply_function_result(acc, fn, r) ==
  IF r.exc THEN [acc EXCEPT !.mem = r.mem, !.exc = TRUE]
  ELSE IF r.ok /\ r.body # <<>>
  THEN [updated |-> splice(acc.updated, fn, r.body), changed |-> TRUE,
        mem |-> r.mem, exc |-> FALSE]
  ELSE [acc EXCEPT !.mem = r.mem]

\* one iteration on acc = [updated, changed, mem, exc]
function_step(acc, rel, fn, resp) ==
  IF acc.exc THEN acc
  ELSE apply_function_result(acc, fn,
         IF estimate_tokens(fn.body) <= planner.safe_fn_token_limit
         THEN refactor_function_body(acc.mem, rel, fn, resp)
         ELSE refactor_chunked_large_function(acc.mem, rel, fn, resp))

RECURSIVE function_loop(_, _, _, _, _)
function_loop(acc, rel, funcs, k, resp) ==
  IF k > Len(funcs) \/ k > FN_SCAN_LIMIT THEN acc
  ELSE function_loop(function_step(acc, rel, funcs[k], resp), rel, funcs, k + 1, resp)

\* after the loop: the spliced file, or the local fallback
function_mode_result(rel, content, acc) ==
  IF acc.exc THEN [patch |-> NoPatch, mem |-> acc.mem, exc |-> TRUE]
  ELSE IF acc.changed /\ Strip(acc.updated) # Strip(content)
  THEN [patch |-> Patch(rel, LStrip(acc.updated)), mem |-> acc.mem, exc |-> FALSE]
  ELSE [patch |-> minimal_autopatch(rel, content), mem |-> acc.mem, exc |-> FALSE]

function_mode(mem, rel, content, funcs, resp) ==
  IF funcs = <<>>
  THEN [patch |-> minimal_autopatch(rel, content), mem |-> mem, exc |-> FALSE]
  ELSE function_mode_result(rel, content,
         function_loop([updated |-> Cat(NL(1), content), changed |-> FALSE,
                        mem |-> mem, exc |-> FALSE], rel, funcs, 1, resp))

refactor_function_or_chunk(mem, rel, content, resp) ==
  function_mode(mem, rel, content, extract_functions(content), resp)

\* AGGRESSIVE: the whole-file rewrite, then the small patch when it gave None
aggressive_fallback(full, rel, content, resp) ==
  IF full.exc \/ full.patch # NoPatch THEN full
  ELSE refactor_small_patch(full.mem, rel, content, resp)

strategy_result(mode, mem, rel, content, resp) ==
  CASE mode = "AGGRESSIVE" ->
         aggressive_fallback(refactor_full_file(mem, rel, content, resp),
                             rel, content, resp)
    [] mode = "SMALL_PATCH" -> refactor_small_patch(mem, rel, content, resp)
    [] OTHER -> refactor_function_or_chunk(mem, rel, content, resp)

\* the end of the try block, r the strategy's result: [patch, mem];
\* patch = NoPatch when the candidate contributes none
record_result(mode, rel, content, r) ==
  IF r.exc
  THEN [patch |-> NoPatch, mem |-> record_file_fail(r.mem, rel, "exception")]
  ELSE IF r.patch # NoPatch
  THEN [patch |-> r.patch, mem |-> record_file_pass(r.mem, rel, mode)]
  ELSE [patch |-> minimal_autopatch(rel, content),
        mem |-> record_file_pass(r.mem, rel, "MINIMAL")]

plan_with_mode(mode, mem, rel, content, resp) ==
  record_result(mode, rel, content, strategy_result(mode, mem, rel, content, resp))

\* the body of plan_evolution's loop for one candidate whose content was read
plan_one(mem, rel, content, resp) ==
  plan_with_mode(select_mode(estimate_tokens(content)), mem, rel, content, resp)

function_call_sites(funcs) ==
  UNION {
    IF estimate_tokens(funcs[k].body) <= planner.safe_fn_token_limit
    THEN {<<k, 0>>}
    ELSE {<<k, c>> : c \in 1..Len(chunk_text(funcs[k].body, CHUNK_SIZE,
                                             CHUNK_OVERLAP))}
    : k \in {j \in 1..Len(funcs) : j <= FN_SCAN_LIMIT} }

\* the call sites plan_one can reach for this content
CallSites(content) ==
  CASE select_mode(estimate_tokens(content)) = "AGGRESSIVE" -> {<<0, 1>>, <<0, 2>>}
    [] select_mode(estimate_tokens(content)) = "SMALL_PATCH" -> {<<0, 2>>}
    [] OTHER -> function_call_sites(extract_functions(content))

\* ------------------------------------------------------------------------
\* Paths, trees and configurations the model runs on
\* ------------------------------------------------------------------------
FileA == <<"src", "a.py">>
FileB == <<"src", "b.py">>
FileT == <<"src", "tests", "t.py">>
Files == {FileA, FileB, FileT}

EXCLUDE_DIRS == {"tests", "__pycache__", "sandbox_repo"}

\* file contents
Tiny == <<Run("x", 40), Run("n", 1)>>
TinyDoc ==
  <<Run("q", 3), Run("t", 10), Run("q", 3), Run("n", 1), Run("i", 10),
    Run("n", 1), Run("f", 8), Run("n", 1), Run("x", 30), Run("n", 1)>>
Mid == <<Run("i", 9), Run("n", 1), Run("x", 2600), Run("n", 1)>>
BigPlain == <<Run("x", 12100), Run("n", 1)>>
\* three functions: the first and third within a function budget of 260
\* tokens, the second over it (two overlapping chunks)
BigFn ==
  <<Run("q", 3), Run("t", 10), Run("q", 3), Run("n", 1),
    Run("D", 8), Run("x", 400), Run("n", 1),
    Run("D", 8), Run("x", 1300), Run("n", 1),
    Run("D", 8), Run("x", 1000), Run("n", 1)>>
\* four functions, all within the default function budget
BigManyFn ==
  <<Run("D", 8), Run("x", 3000), Run("n", 1), Run("D", 8), Run("x", 3200),
    Run("n", 1), Run("D", 8), Run("x", 3400), Run("n", 1), Run("D", 8),
    Run("x", 3600), Run("n", 1)>>

DefaultLimits ==
  [safe_file_token_limit |-> SAFE_FILE_TOKEN_LIMIT,
   safe_fn_token_limit |-> SAFE_FN_TOKEN_LIMIT]
\* a fers block that lowers both budgets
LowLimits == [safe_file_token_limit |-> 650, safe_fn_token_limit |-> 260]

EmptyMemory == [files |-> <<>>, functions |-> <<>>]

\* the rewrite of one function of the scan: within the function budget by
\* one call, over it chunk by chunk
function_result(rel, fn, resp) ==
  IF estimate_tokens(fn.body) <= planner.safe_fn_token_limit
  THEN refactor_function_body(EmptyMemory, rel, fn, resp)
  ELSE refactor_chunked_large_function(EmptyMemory, rel, fn, resp)

\* "if new_body:" for the k-th function
IsRewritten(r) == ~r.exc /\ r.ok /\ r.body # <<>>

\* history: the functions (by position) function mode got a new body for
rewritten_functions(rel, content, resp) ==
  IF select_mode(estimate_tokens(content)) # "FUNCTION_OR_CHUNK" THEN {}
  ELSE {k \in 1..Len(extract_functions(content)) :
          /\ k <= FN_SCAN_LIMIT
          /\ IsRewritten(function_result(rel, extract_functions(content)[k], resp))}

\* the text with the spans of the rewritten functions replaced, from the last
\* span to the first, so that every span is the one the scan found
RECURSIVE replace_spans(_, _, _, _, _)
replace_spans(updated, rel, funcs, resp, k) ==
  IF k = 0 THEN updated
  ELSE replace_spans(
         IF k <= FN_SCAN_LIMIT /\ IsRewritten(function_result(rel, funcs[k], resp))
         THEN splice(updated, funcs[k], function_result(rel, funcs[k], resp).body)
         ELSE updated,
         rel, funcs, resp, k - 1)

\* history: the file function mode is meant to give: each rewritten function
\* replaced at the span it had in the content
in_place_text(rel, content, resp) ==
  IF select_mode(estimate_tokens(content)) # "FUNCTION_OR_CHUNK" THEN <<>>
  ELSE LStrip(replace_spans(Cat(NL(1), content), rel, extract_functions(content),
                            resp, Len(extract_functions(content))))

\* history: the strategy whose output the patch of a candidate is: the local
\* _minimal_autopatch ("MINIMAL"), the small patch after a whole-file attempt
\* that gave None, or the selected strategy
produced_by(rel, content, resp, patch) ==
  IF patch = NoPatch THEN None
  ELSE IF patch = minimal_autopatch(rel, content) THEN "MINIMAL"
  ELSE IF /\ select_mode(estimate_tokens(content)) = "AGGRESSIVE"
          /\ refactor_full_file(EmptyMemory, rel, content, resp).patch = NoPatch
  THEN "SMALL_PATCH"
  ELSE select_mode(estimate_tokens(content))

Stores == {"EvolutionMemory", "MergeState", "ProcessedLog"}

\* what a store can hold after a write of `new` over `old`: a write to a
\* broken store may raise, which leaves the old content
written(store, old, new) == IF store \in broken THEN {old, new} ELSE {new}

\* EvolutionMemory.save, called by every record_*: an exception of the write
\* is swallowed
save == memory_file' \in written("EvolutionMemory", memory_file, memory')

\* the variables plan_evolution does not touch
exec_vars ==
  <<pc, dry_run, auto_apply, ace_cfg, auto_merge_threshold, target_files,
    run_patches, sandbox, applied_in_sandbox, proc, test_ok, test_output, result,
    processed_log, approval_queue, runs, hist>>

exec_vars_but_runs ==
  <<pc, dry_run, auto_apply, ace_cfg, auto_merge_threshold, target_files,
    run_patches, sandbox, applied_in_sandbox, proc, test_ok, test_output, result,
    processed_log, approval_queue, hist>>

\* the variables of the parts of the system that are modelled on their own
sandbox_vars == <<project, sandbox_dir, prepare_result, prepares>>

config_vars ==
  <<settings, raw, last_loaded_timestamp, clock, profile_override, selected,
    cfg_pc>>

chunk_vars == <<chunk_in, chunk_i, chunk_list, chunk_pc>>

crash_vars == <<state_written, save_pc, pending, prev_state, interrupted>>

corrupt_vars == <<state_json, update_result>>

call_vars == <<chunk_size, chunk_overlap>>

third_vars == <<corrupt_vars, restarts, selected_ever, call_vars>>
later_vars_but_selected ==
  <<config_vars, broken, chunk_vars, crash_vars, corrupt_vars, restarts, call_vars>>

later_vars == <<config_vars, broken, chunk_vars, crash_vars, third_vars>>

ext_vars == <<autopatch_runs, sandbox_vars, later_vars>>

other_vars == <<exec_vars, state_file, outcomes, selections, ext_vars>>

\* ------------------------------------------------------------------------
\* plan_evolution
\* ------------------------------------------------------------------------
\* _normalize_candidate_files: drop every path with an excluded segment
normalize_candidate_files(cs) ==
  SelectSeq(cs, LAMBDA rel : ~\E k \in 1..Len(rel) : rel[k] \in EXCLUDE_DIRS)

\* _read_file: None for a missing file, the content, or OSError
read_file(rel) ==
  IF ~main[rel].exists THEN [kind |-> "none", content |-> <<>>]
  ELSE IF rel \in unreadable THEN [kind |-> "oserror", content |-> <<>>]
  ELSE [kind |-> "ok", content |-> main[rel].text]

\* the call plan_evolution(cs): normalise and enter the loop
plan_call(cs) ==
  /\ plan_pc' = "loop"
  /\ candidate_files' = cs
  /\ rel_files' = normalize_candidate_files(cs)
  /\ idx' = 1
  /\ patches' = <<>>
  /\ reads' = <<>>
  /\ all_failed' = TRUE

\* one iteration whose read gives no content: record the failure, continue
PlanFileNoContent ==
  /\ plan_pc = "loop" /\ idx <= Len(rel_files)
  /\ \/ read_file(rel_files[idx]).kind = "none"
     \/ /\ read_file(rel_files[idx]).kind = "ok"
        /\ read_file(rel_files[idx]).content = <<>>
  /\ memory' = record_file_fail(memory, rel_files[idx], "no_content")
  /\ save
  /\ reads' = Append(reads, [file |-> rel_files[idx], read |-> "none",
                             calls_ok |-> TRUE, patched |-> FALSE,
                             producer |-> None, rewritten |-> {},
                             in_place |-> <<>>])
  /\ idx' = idx + 1
  /\ UNCHANGED <<main, planner, rel_files, patches, plan_pc, unreadable,
                 candidate_files, all_failed>>
  /\ UNCHANGED other_vars

\* one iteration whose read raises OSError: _read_file lets it through and
\* it leaves plan_evolution
PlanFileReadError ==
  /\ plan_pc = "loop" /\ idx <= Len(rel_files)
  /\ read_file(rel_files[idx]).kind = "oserror"
  /\ plan_pc' = "raised"
  /\ reads' = Append(reads, [file |-> rel_files[idx], read |-> "oserror",
                             calls_ok |-> TRUE, patched |-> FALSE,
                             producer |-> None, rewritten |-> {},
                             in_place |-> <<>>])
  /\ UNCHANGED <<main, planner, memory, memory_file, rel_files, idx, patches, unreadable,
                 candidate_files, all_failed>>
  /\ UNCHANGED other_vars

\* one iteration on a file whose content was read
PlanFile ==
  /\ plan_pc = "loop" /\ idx <= Len(rel_files)
  /\ read_file(rel_files[idx]).kind = "ok"
  /\ read_file(rel_files[idx]).content # <<>>
  /\ \E resp \in [CallSites(read_file(rel_files[idx]).content) -> Responses] :
       \E r \in {plan_one(memory, rel_files[idx],
                          read_file(rel_files[idx]).content, resp)} :
         /\ memory' = r.mem
         /\ save
         /\ patches' = IF r.patch # NoPatch THEN Append(patches, r.patch)
                       ELSE patches
         /\ reads' = Append(reads,
              [file |-> rel_files[idx], read |-> "ok",
               calls_ok |-> \A cs \in DOMAIN resp : resp[cs] # "crash",
               patched |-> r.patch # NoPatch,
               producer |-> produced_by(rel_files[idx],
                                        read_file(rel_files[idx]).content,
                                        resp, r.patch),
               rewritten |-> rewritten_functions(rel_files[idx],
                               read_file(rel_files[idx]).content, resp),
               in_place |-> in_place_text(rel_files[idx],
                               read_file(rel_files[idx]).content, resp)])
         /\ all_failed' = (all_failed /\
                           \A cs \in DOMAIN resp : resp[cs] = "fail")
  /\ idx' = idx + 1
  /\ UNCHANGED <<main, planner, rel_files, plan_pc, unreadable, candidate_files>>
  /\ UNCHANGED other_vars

PlanReturn ==
  /\ plan_pc = "loop" /\ idx > Len(rel_files)
  /\ plan_pc' = "returned"
  /\ UNCHANGED <<main, planner, memory, memory_file, rel_files, idx, patches, unreadable,
                 candidate_files, reads, all_failed>>
  /\ UNCHANGED other_vars

\* ------------------------------------------------------------------------
\* ACEExecutor: stores
\* ------------------------------------------------------------------------
NoStateFile ==
  [exists |-> FALSE, merge_success_count |-> 0, auto_merge_ready |-> FALSE,
   last_update_ts |-> 0]

\* time.time() at an update: later than the time of every earlier update
now == Len(outcomes) + 1

\* _load_state: the count of the file, 0 when there is none and when its
\* content is no JSON document
load_state ==
  IF state_file.exists /\ state_written = "whole" /\ state_json = "record"
  THEN state_file.merge_success_count
  ELSE 0

\* a variant that keeps the count on a failure
next_count_no_reset(success) == IF success THEN load_state + 1 ELSE load_state

\* the count _update_merge_state writes
next_count(success) == IF success THEN load_state + 1 ELSE 0

\* a variant whose ready flag, once set, stays set
merge_state_sticky(success) ==
  [exists |-> TRUE,
   merge_success_count |-> next_count(success),
   auto_merge_ready |-> \/ state_file.auto_merge_ready
                        \/ success /\ next_count(success) >= auto_merge_threshold,
   last_update_ts |-> now]

\* the state _update_merge_state saves and returns
merge_state(success) ==
  [exists |-> TRUE,
   merge_success_count |-> next_count(success),
   auto_merge_ready |-> success /\ next_count(success) >= auto_merge_threshold,
   last_update_ts |-> now]

\* a variant that returns what is in the file after the save
returned_state_reloaded(success) ==
  IF "MergeState" \in broken THEN state_file ELSE merge_state(success)

\* the dict _update_merge_state returns: the state it built in memory
returned_state(success) == merge_state(success)

\* _save_state: a write_text that raises is reported and swallowed
save_state(state) == state_file' \in written("MergeState", state_file, state)

\* a variant that runs the update a second time on its own result
update_merge_state_twice(success) ==
  /\ save_state([merge_state(success) EXCEPT
                   !.merge_success_count = IF success THEN @ + 1 ELSE 0,
                   !.last_update_ts = @ + 1])
  /\ outcomes' = Append(Append(outcomes, success), success)

update_merge_state(success) ==
  /\ save_state(merge_state(success))
  /\ outcomes' = Append(outcomes, success)

\* _log_processed: one appended line
log_processed(files, status) ==
  processed_log' \in
    written("ProcessedLog", processed_log,
            Append(processed_log, [status |-> status, files |-> files]))

\* _load_processed_set: every path named by a line of the log
load_processed_set ==
  UNION {{processed_log[i].files[k] : k \in 1..Len(processed_log[i].files)}
         : i \in 1..Len(processed_log)}

\* a variant that registers the proposal as already approved
register_proposal_approved(ptype) ==
  Append(approval_queue,
         [id |-> Len(approval_queue) + 1, type |-> ptype, status |-> "APPROVED"])

\* ApprovalManager.register_proposal: the n-th proposal gets the n-th fresh id
register_proposal(ptype) ==
  Append(approval_queue,
         [id |-> Len(approval_queue) + 1, type |-> ptype, status |-> "PENDING"])

\* ------------------------------------------------------------------------
\* ACEExecutor: discovery, sandbox, writes
\* ------------------------------------------------------------------------
DISCOVER_SKIP_DIRS == {"sandbox_repo", ".venv", "__pycache__"}

\* the names of the model's trees that start with "test_"
StartsWithTest(name) == name \in {"test_x.py"}

\* the names of the model's trees that end with `dir`
EndsWithName(name, dir) == name = dir \/ (dir = ".venv" /\ name = "my.venv")

\* the substring filter of _discover_target_files on the path's segments:
\* "/tests/" and "/test_" need a "/" before them, the others one after
discover_excluded(rel) ==
  \/ \E k \in 2..(Len(rel) - 1) : rel[k] = "tests"
  \/ \E k \in 2..Len(rel) : StartsWithTest(rel[k])
  \/ \E k \in 1..(Len(rel) - 1) :
       \E dir \in DISCOVER_SKIP_DIRS : EndsWithName(rel[k], dir)

file_size(rel) == TLen(main[rel].text)

\* a variant that keeps empty files
discover_eligible_any_size ==
  {rel \in DOMAIN main : /\ main[rel].exists
                         /\ rel[1] = "src"
                         /\ ~discover_excluded(rel)}

\* src/**/*.py, not filtered out, not empty
discover_eligible ==
  {rel \in DOMAIN main : /\ main[rel].exists
                         /\ rel[1] = "src"
                         /\ ~discover_excluded(rel)
                         /\ file_size(rel) > 0}

\* _key(a) <= _key(b): (rel in processed, size), False before True
key_leq(a, b) ==
  \/ a \notin load_processed_set /\ b \in load_processed_set
  \/ /\ (a \in load_processed_set) = (b \in load_processed_set)
     /\ file_size(a) <= file_size(b)

\* files.sort(key=_key): a stable sort of the directory walk, whose order the
\* file system decides
sorted_orders(E) ==
  {fs \in [1..Cardinality(E) -> E] :
     /\ \A i, j \in 1..Cardinality(E) : i # j => fs[i] # fs[j]
     /\ \A i, j \in 1..Cardinality(E) : i < j => key_leq(fs[i], fs[j])}

\* files if max_files <= 0 else files[:max_files]
select_files(fs, max_files) ==
  IF max_files <= 0 \/ max_files >= Len(fs) THEN fs ELSE SubSeq(fs, 1, max_files)

\* A scalar of the configuration is the text str() gives for it, one
\* character per element. The decimal digits in order, and a character that
\* str.isdigit accepts and int() does not (a superscript two).
DecimalDigits == <<"0", "1", "2", "3", "4", "5", "6", "7", "8", "9">>

SUPERSCRIPT_TWO == "sup2"

IsDecimal(c) == \E d \in 1..Len(DecimalDigits) : DecimalDigits[d] = c

\* str.isdigit: not empty, every character a digit
isdigit(text) ==
  /\ text # <<>>
  /\ \A i \in 1..Len(text) : IsDecimal(text[i]) \/ text[i] = SUPERSCRIPT_TWO

digit_value(c) == (CHOOSE d \in 1..Len(DecimalDigits) : DecimalDigits[d] = c) - 1

\* int() of a text of decimal digits
RECURSIVE int_of(_)
int_of(text) ==
  IF text = <<>> THEN 0
  ELSE int_of(SubSeq(text, 1, Len(text) - 1)) * 10 + digit_value(text[Len(text)])

\* the text of max_files_per_run where the block sets it
HasMaxFiles(cfg) == "max_files_per_run" \in DOMAIN cfg

\* int(max_files_raw) raises ValueError: the text passed isdigit and has a
\* character that is no decimal digit
max_files_raises(cfg) ==
  /\ HasMaxFiles(cfg)
  /\ isdigit(cfg.max_files_per_run)
  /\ \E i \in 1..Len(cfg.max_files_per_run) : ~IsDecimal(cfg.max_files_per_run[i])

\* max_files_raw = ace_cfg.get("max_files_per_run", 8);
\* int(max_files_raw) if str(max_files_raw).isdigit() else -1
max_files(cfg) ==
  IF ~HasMaxFiles(cfg) THEN DEFAULT_MAX_FILES
  ELSE IF isdigit(cfg.max_files_per_run) THEN int_of(cfg.max_files_per_run)
  ELSE -1

discover_target_files ==
  IF max_files_raises(ace_cfg) THEN {}
  ELSE {select_files(fs, max_files(ace_cfg)) : fs \in sorted_orders(discover_eligible)}

\* the writes of one apply loop: ok is the set of patches whose write_text
\* succeeded
RECURSIVE write_patches(_, _, _, _)
write_patches(tree, ps, ok, k) ==
  IF k > Len(ps) THEN tree
  ELSE write_patches(IF k \in ok /\ ps[k].file # <<>>
                     THEN [tree EXCEPT ![ps[k].file] = File(ps[k].new_code)]
                     ELSE tree,
                     ps, ok, k + 1)

\* a text of the result is the sequence of its words
NoResult == [status |-> "NONE", applied_patches |-> 0, errors |-> <<>>, approval_id |-> 0]

Result(status, applied, errors, approval_id) ==
  [status |-> status, applied_patches |-> applied, errors |-> errors,
   approval_id |-> approval_id]

\* ------------------------------------------------------------------------
\* ACEExecutor.run_full_refactor_cycle
\* ------------------------------------------------------------------------
\* the entry of a run, up to the call of the planner
begin_run(dry, files) ==
  /\ runs' = runs + 1
  /\ dry_run' = dry
  /\ target_files' = files
  /\ run_patches' = <<>>
  /\ applied_in_sandbox' = 0
  /\ proc' = "none"
  /\ test_ok' = FALSE
  /\ test_output' = <<>>
  /\ hist' = [main |-> main, state |-> state_file, log |-> Len(processed_log),
              queue |-> Len(approval_queue), updates |-> Len(outcomes)]

\* no candidate: NO_FILES
RunNoFiles ==
  /\ pc \in {"idle", "done", "raised"} /\ runs < MaxRuns
  /\ \E dry \in BOOLEAN : \E files \in discover_target_files :
       /\ files = <<>>
       /\ begin_run(dry, files)
  /\ result' = Result("NO_FILES", 0, <<"No", "candidate", "files", "found.">>, 0)
  /\ pc' = "done"
  /\ UNCHANGED <<main, planner, memory, memory_file, unreadable, rel_files, idx, patches,
                 plan_pc, candidate_files, reads, all_failed, auto_apply, ace_cfg,
                 auto_merge_threshold, sandbox, processed_log, approval_queue,
                 state_file, outcomes, selections>>
  /\ UNCHANGED ext_vars

\* candidates found: the planner is called on them
RunStart ==
  /\ pc \in {"idle", "done", "raised"} /\ runs < MaxRuns
  /\ \E dry \in BOOLEAN : \E files \in discover_target_files :
       /\ files # <<>>
       /\ begin_run(dry, files)
       /\ plan_call(files)
  /\ result' = NoResult
  /\ pc' = "planning"
  /\ UNCHANGED <<main, planner, memory, memory_file, unreadable, auto_apply, ace_cfg,
                 auto_merge_threshold, sandbox, processed_log, approval_queue,
                 state_file, outcomes, selections>>
  /\ UNCHANGED ext_vars

\* _plan_patches gave nothing (an empty plan, or the planner raised): NO_CHANGES
PlanNoChanges ==
  /\ pc = "planning"
  /\ \/ plan_pc = "raised"
     \/ plan_pc = "returned" /\ patches = <<>>
  /\ plan_pc' = "idle"
  /\ result' = Result("NO_CHANGES", 0, <<>>, 0)
  /\ pc' = "done"
  /\ UNCHANGED <<main, planner, memory, memory_file, unreadable, rel_files, idx, patches,
                 candidate_files, reads, all_failed, dry_run, auto_apply, ace_cfg,
                 auto_merge_threshold, target_files, run_patches, sandbox,
                 applied_in_sandbox, proc, test_ok, test_output, processed_log,
                 approval_queue, runs, hist, state_file, outcomes, selections>>
  /\ UNCHANGED ext_vars

\* _plan_patches gave patches
PlanDone ==
  /\ pc = "planning"
  /\ plan_pc = "returned" /\ patches # <<>>
  /\ plan_pc' = "idle"
  /\ run_patches' = patches
  /\ pc' = "sandbox"
  /\ UNCHANGED <<main, planner, memory, memory_file, unreadable, rel_files, idx, patches,
                 candidate_files, reads, all_failed, dry_run, auto_apply, ace_cfg,
                 auto_merge_threshold, target_files, sandbox, applied_in_sandbox,
                 proc, test_ok, test_output, result, processed_log, approval_queue, runs,
                 hist, state_file, outcomes, selections>>
  /\ UNCHANGED ext_vars

\* _prepare_sandbox: a fresh copy of the tree
PrepareSandbox ==
  /\ pc = "sandbox"
  /\ sandbox' = main
  /\ pc' = "apply"
  /\ UNCHANGED <<main, planner, memory, memory_file, unreadable, rel_files, idx, patches,
                 plan_pc, candidate_files, reads, all_failed, dry_run, auto_apply,
                 ace_cfg, auto_merge_threshold, target_files, run_patches,
                 applied_in_sandbox, proc, test_ok, test_output, result, processed_log,
                 approval_queue, runs, hist, state_file, outcomes, selections>>
  /\ UNCHANGED ext_vars

\* _prepare_sandbox raises (the old sandbox cannot be removed, the copy
\* fails): the exception leaves the run, which returns nothing
PrepareSandboxRaises ==
  /\ pc = "sandbox"
  /\ pc' = "raised"
  /\ UNCHANGED <<main, planner, memory, memory_file, unreadable, rel_files, idx, patches,
                 plan_pc, candidate_files, reads, all_failed, dry_run, auto_apply,
                 ace_cfg, auto_merge_threshold, target_files, run_patches, sandbox,
                 applied_in_sandbox, proc, test_ok, test_output, result, processed_log,
                 approval_queue, runs, hist, state_file, outcomes, selections>>
  /\ UNCHANGED ext_vars

\* _apply_patches_in_sandbox wrote nothing: NO_CHANGES
SandboxNoChanges ==
  /\ pc = "apply"
  /\ applied_in_sandbox' = 0
  /\ result' = Result("NO_CHANGES", 0, <<"No", "patches", "applied", "in", "sandbox.">>, 0)
  /\ pc' = "done"
  /\ UNCHANGED <<main, planner, memory, memory_file, unreadable, rel_files, idx, patches,
                 plan_pc, candidate_files, reads, all_failed, dry_run, auto_apply,
                 ace_cfg, auto_merge_threshold, target_files, run_patches, sandbox,
                 proc, test_ok, test_output, processed_log, approval_queue, runs, hist,
                 state_file, outcomes, selections>>
  /\ UNCHANGED ext_vars

\* _apply_patches_in_sandbox wrote at least one patch
ApplyPatchesInSandbox ==
  /\ pc = "apply"
  /\ \E ok \in (SUBSET (1..Len(run_patches))) \ {{}} :
       /\ sandbox' = write_patches(sandbox, run_patches, ok, 1)
       /\ applied_in_sandbox' = Cardinality(ok)
  /\ pc' = "pytest"
  /\ UNCHANGED <<main, planner, memory, memory_file, unreadable, rel_files, idx, patches,
                 plan_pc, candidate_files, reads, all_failed, dry_run, auto_apply,
                 ace_cfg, auto_merge_threshold, target_files, run_patches, proc, test_ok,
                 test_output, result, processed_log, approval_queue, runs, hist,
                 state_file, outcomes, selections>>
  /\ UNCHANGED ext_vars

\* what the test runner can do: exit with 0, exit with another code, run
\* past the timeout, or not be there to start
ProcOutcomes == {"exit0", "exit1", "hang", "missing"}

\* ace_cfg.get("max_test_runtime_sec", 180)
max_test_runtime_sec(cfg) ==
  IF "max_test_runtime_sec" \in DOMAIN cfg THEN cfg.max_test_runtime_sec
  ELSE DEFAULT_MAX_TEST_RUNTIME

\* proc.stdout: what the runner printed before it exited
captured_output(p) == IF p = "exit0" THEN <<"passed">> ELSE <<"failed">>

\* a variant that reports a timeout and a missing runner without a message
run_pytest_plain_message(p) ==
  [ok |-> p = "exit0",
   output |-> IF p \in {"exit0", "exit1"} THEN captured_output(p) ELSE <<>>]

\* _run_pytest_in_sandbox: (ok, output) for what the runner did
run_pytest_in_sandbox(p) ==
  CASE p = "hang" ->
         [ok |-> FALSE,
          output |-> <<"pytest", "timeout", "after",
                       ToString(max_test_runtime_sec(ace_cfg)), "seconds">>]
    [] p = "missing" ->
         [ok |-> FALSE,
          output |-> <<"pytest", "not", "found", "in", "environment">>]
    [] OTHER -> [ok |-> p = "exit0", output |-> captured_output(p)]

RunPytestInSandbox ==
  /\ pc = "pytest"
  /\ \E p \in ProcOutcomes :
       /\ proc' = p
       /\ test_ok' = run_pytest_in_sandbox(p).ok
       /\ test_output' = run_pytest_in_sandbox(p).output
  /\ pc' = "tested"
  /\ UNCHANGED <<main, planner, memory, memory_file, unreadable, rel_files, idx, patches,
                 plan_pc, candidate_files, reads, all_failed, dry_run, auto_apply,
                 ace_cfg, auto_merge_threshold, target_files, run_patches, sandbox,
                 applied_in_sandbox, result, processed_log, approval_queue, runs,
                 hist, state_file, outcomes, selections>>
  /\ UNCHANGED ext_vars

\* the branch conditions after the test run, in the order of the code
\* a variant that takes only a non-zero exit code for a failure
tests_failed_on_exit_code == proc = "exit1"

tests_failed == ~test_ok

dry_run_passed == test_ok /\ dry_run

\* a variant that asks for approval in a dry run too
needs_approval_in_dry_run == test_ok /\ ~auto_apply

needs_approval == test_ok /\ ~dry_run /\ ~auto_apply

\* a variant that writes to the main tree in a dry run too
applies_to_main_in_dry_run == test_ok /\ auto_apply

applies_to_main == test_ok /\ ~dry_run /\ auto_apply

\* a variant that never reports readiness
applied_status_plain(merge_info) == "APPLIED"

\* the status of a run that wrote to the main tree
applied_status(merge_info) ==
  IF merge_info.auto_merge_ready THEN "APPLIED_AUTO_MERGE_READY" ELSE "APPLIED"

\* tests failed: FAIL_TESTS
FailTests ==
  /\ pc = "tested" /\ tests_failed
  /\ update_merge_state(FALSE)
  /\ log_processed(target_files, "tests_failed")
  /\ result' = Result("FAIL_TESTS", 0, test_output, 0)
  /\ pc' = "done"
  /\ UNCHANGED <<main, planner, memory, memory_file, unreadable, rel_files, idx, patches,
                 plan_pc, candidate_files, reads, all_failed, dry_run, auto_apply,
                 ace_cfg, auto_merge_threshold, target_files, run_patches, sandbox,
                 applied_in_sandbox, proc, test_ok, test_output, approval_queue, runs,
                 hist, selections>>
  /\ UNCHANGED ext_vars

\* tests passed in a dry run: DRY_RUN_OK
DryRunOk ==
  /\ pc = "tested" /\ dry_run_passed
  /\ update_merge_state(TRUE)
  /\ log_processed(target_files, "dry_run_passed")
  /\ result' = Result("DRY_RUN_OK", applied_in_sandbox, <<>>, 0)
  /\ pc' = "done"
  /\ UNCHANGED <<main, planner, memory, memory_file, unreadable, rel_files, idx, patches,
                 plan_pc, candidate_files, reads, all_failed, dry_run, auto_apply,
                 ace_cfg, auto_merge_threshold, target_files, run_patches, sandbox,
                 applied_in_sandbox, proc, test_ok, test_output, approval_queue, runs,
                 hist, selections>>
  /\ UNCHANGED ext_vars

\* tests passed, auto-apply off: a proposal is registered, AWAITING_APPROVAL
AwaitApproval ==
  /\ pc = "tested" /\ needs_approval
  /\ approval_queue' = register_proposal("ACE_PATCHES")
  /\ update_merge_state(TRUE)
  /\ log_processed(target_files, "awaiting_approval")
  /\ result' = Result("AWAITING_APPROVAL", 0, <<>>, Len(approval_queue) + 1)
  /\ pc' = "done"
  /\ UNCHANGED <<main, planner, memory, memory_file, unreadable, rel_files, idx, patches,
                 plan_pc, candidate_files, reads, all_failed, dry_run, auto_apply,
                 ace_cfg, auto_merge_threshold, target_files, run_patches, sandbox,
                 applied_in_sandbox, proc, test_ok, test_output, runs, hist, selections>>
  /\ UNCHANGED ext_vars

\* tests passed, auto-apply on: _apply_patches_in_main_repo, then APPLIED or
\* APPLIED_AUTO_MERGE_READY
ApplyPatchesInMainRepo ==
  /\ pc = "tested" /\ applies_to_main
  /\ \E ok \in SUBSET (1..Len(run_patches)) :
       /\ main' = write_patches(main, run_patches, ok, 1)
       /\ result' = Result(applied_status(returned_state(TRUE)),
                           Cardinality(ok), <<>>, 0)
  /\ update_merge_state(TRUE)
  /\ log_processed(target_files, "applied")
  /\ pc' = "done"
  /\ UNCHANGED <<planner, memory, memory_file, unreadable, rel_files, idx, patches, plan_pc,
                 candidate_files, reads, all_failed, dry_run, auto_apply, ace_cfg,
                 auto_merge_threshold, target_files, run_patches, sandbox,
                 applied_in_sandbox, proc, test_ok, test_output, approval_queue, runs,
                 hist, selections>>
  /\ UNCHANGED ext_vars

\* ------------------------------------------------------------------------
\* ApprovalManager.approve / reject: the operator's decisions
\* ------------------------------------------------------------------------
set_status(i, status) ==
  approval_queue' = [approval_queue EXCEPT ![i].status = status]

Approve ==
  /\ \E i \in 1..Len(approval_queue) : set_status(i, "APPROVED")
  /\ UNCHANGED <<main, planner, memory, memory_file, unreadable, rel_files, idx, patches,
                 plan_pc, candidate_files, reads, all_failed, pc, dry_run,
                 auto_apply, ace_cfg, auto_merge_threshold, target_files,
                 run_patches, sandbox, applied_in_sandbox, proc, test_ok, test_output,
                 result, processed_log, runs, hist, state_file, outcomes,
                 selections>>
  /\ UNCHANGED ext_vars

Reject ==
  /\ \E i \in 1..Len(approval_queue) : set_status(i, "REJECTED")
  /\ UNCHANGED <<main, planner, memory, memory_file, unreadable, rel_files, idx, patches,
                 plan_pc, candidate_files, reads, all_failed, pc, dry_run,
                 auto_apply, ace_cfg, auto_merge_threshold, target_files,
                 run_patches, sandbox, applied_in_sandbox, proc, test_ok, test_output,
                 result, processed_log, runs, hist, state_file, outcomes,
                 selections>>
  /\ UNCHANGED ext_vars

\* ------------------------------------------------------------------------
\* Initial states
\* ------------------------------------------------------------------------
NoHist == [main |-> [f \in Files |-> Absent], state |-> NoStateFile, log |-> 0,
           queue |-> 0, updates |-> 0]

PlanIdle ==
  /\ plan_pc = "idle"
  /\ candidate_files = <<>>
  /\ rel_files = <<>>
  /\ idx = 1
  /\ patches = <<>>
  /\ reads = <<>>
  /\ all_failed = TRUE

ExecIdle ==
  /\ pc = "idle"
  /\ dry_run = FALSE
  /\ target_files = <<>>
  /\ run_patches = <<>>
  /\ sandbox = [f \in Files |-> Absent]
  /\ applied_in_sandbox = 0
  /\ proc = "none"
  /\ test_ok = FALSE
  /\ test_output = <<>>
  /\ result = NoResult
  /\ state_file = NoStateFile
  /\ processed_log = <<>>
  /\ approval_queue = <<>>
  /\ runs = 0
  /\ outcomes = <<>>
  /\ hist = NoHist
  /\ selections = <<>>

AutopatchIdle == autopatch_runs = <<>>

\* the parts modelled on their own, at rest
NoSettings == <<>>

SandboxIdle ==
  /\ project = {}
  /\ sandbox_dir = <<"sandbox_repo">>
  /\ prepare_result = "none"
  /\ prepares = 0

\* no settings file is followed
ConfigIdle ==
  /\ settings = NoSettings
  /\ raw = NoSettings
  /\ last_loaded_timestamp = 0
  /\ clock = 0
  /\ profile_override = "none"
  /\ selected = "none"
  /\ cfg_pc = "idle"

ChunkIdle ==
  /\ chunk_in = <<>>
  /\ chunk_i = 0
  /\ chunk_list = <<>>
  /\ chunk_pc = "idle"

\* no write of the state file is in progress and none was interrupted
CrashIdle ==
  /\ state_written = "whole"
  /\ save_pc = "idle"
  /\ pending = NoStateFile
  /\ prev_state = NoStateFile
  /\ interrupted = FALSE

CorruptIdle ==
  /\ state_json = "record"
  /\ update_result = "none"

ThirdIdle ==
  /\ CorruptIdle
  /\ restarts = 0
  /\ selected_ever = {}
  /\ chunk_size = CHUNK_SIZE
  /\ chunk_overlap = CHUNK_OVERLAP

LaterIdle == ConfigIdle /\ broken = {} /\ ChunkIdle /\ CrashIdle /\ ThirdIdle

ExtIdle == AutopatchIdle /\ SandboxIdle /\ LaterIdle

DefaultAce == [max_files_per_run |-> <<"8">>]

\* ------------------------------------------------------------------------
\* The planner on its own: one plan_evolution call on a given tree
\* ------------------------------------------------------------------------
PlanTrees(limits) ==
  { (FileA :> File(a)) @@ (FileB :> b) @@ (FileT :> File(Tiny)) :
      a \in {Tiny, TinyDoc, Mid, BigPlain, BigFn}
             \cup (IF limits = DefaultLimits THEN {BigManyFn} ELSE {}),
      b \in {Absent, File(<<>>), File(Tiny)} }

CandidateLists ==
  {<<>>, <<FileA>>, <<FileA, FileB>>, <<FileB, FileA>>, <<FileT, FileA>>}

PlanInit ==
  /\ planner \in {DefaultLimits, LowLimits}
  /\ main \in PlanTrees(planner)
  /\ unreadable \in {{}, {FileA}, {FileB}}
  /\ memory = EmptyMemory
  /\ memory_file = EmptyMemory
  /\ PlanIdle
  /\ ExecIdle
  /\ ExtIdle
  /\ auto_apply = FALSE
  /\ ace_cfg = DefaultAce
  /\ auto_merge_threshold = DEFAULT_THRESHOLD

PlanEvolution ==
  /\ plan_pc = "idle"
  /\ \E cs \in CandidateLists : plan_call(cs)
  /\ UNCHANGED <<main, planner, memory, memory_file, unreadable>>
  /\ UNCHANGED other_vars

vars ==
  <<main, planner, memory, memory_file, rel_files, idx, patches, plan_pc, unreadable,
    candidate_files, reads, all_failed, pc, dry_run, auto_apply, ace_cfg,
    auto_merge_threshold, target_files, run_patches, sandbox, applied_in_sandbox,
    proc, test_ok, test_output, result, state_file, processed_log, approval_queue,
    runs, outcomes, hist, selections, ext_vars>>

PlanNext ==
  \/ PlanEvolution
  \/ PlanFileNoContent
  \/ PlanFileReadError
  \/ PlanFile
  \/ PlanReturn

SpecPlan == PlanInit /\ [][PlanNext]_vars

\* ------------------------------------------------------------------------
\* The pipeline: runs of run_full_refactor_cycle on a project
\* ------------------------------------------------------------------------
\* a project without a non-empty source file, one with a single small file,
\* and one with a small and a large file; each has a test file
ExecTrees ==
  { (FileA :> Absent) @@ (FileB :> File(<<>>)) @@ (FileT :> File(Tiny)),
    (FileA :> File(Tiny)) @@ (FileB :> Absent) @@ (FileT :> File(Tiny)),
    (FileA :> File(TinyDoc)) @@ (FileB :> File(BigPlain)) @@ (FileT :> File(Tiny)) }

Init ==
  /\ planner = DefaultLimits
  /\ main \in ExecTrees
  /\ unreadable \in {{}, {FileA}}
  /\ memory = EmptyMemory
  /\ memory_file = EmptyMemory
  /\ PlanIdle
  /\ ExecIdle
  /\ ExtIdle
  /\ auto_apply \in BOOLEAN
  /\ ace_cfg \in {DefaultAce, [max_files_per_run |-> <<"1">>]}
  /\ auto_merge_threshold \in 1..2

\* discovery hands the planner existing, non-empty files only, so no
\* iteration of a run finds a candidate without content
Next ==
  \/ RunNoFiles
  \/ RunStart
  \/ PlanFileReadError
  \/ PlanFile
  \/ PlanReturn
  \/ PlanNoChanges
  \/ PlanDone
  \/ PrepareSandbox
  \/ PrepareSandboxRaises
  \/ SandboxNoChanges
  \/ ApplyPatchesInSandbox
  \/ RunPytestInSandbox
  \/ FailTests
  \/ DryRunOk
  \/ AwaitApproval
  \/ ApplyPatchesInMainRepo
  \/ Approve
  \/ Reject

Spec == Init /\ [][Next]_vars

\* ------------------------------------------------------------------------
\* The MergeState store on its own: a sequence of updates from an absent file
\* ------------------------------------------------------------------------
MergeInit ==
  /\ planner = DefaultLimits
  /\ main = [f \in Files |-> Absent]
  /\ unreadable = {}
  /\ memory = EmptyMemory
  /\ memory_file = EmptyMemory
  /\ PlanIdle
  /\ ExecIdle
  /\ ExtIdle
  /\ auto_apply = FALSE
  /\ ace_cfg = DefaultAce
  /\ auto_merge_threshold \in 1..DEFAULT_THRESHOLD

UpdateMergeState ==
  /\ Len(outcomes) < MaxUpdates
  /\ \E success \in BOOLEAN : update_merge_state(success)
  /\ UNCHANGED <<main, planner, memory, memory_file, unreadable, rel_files, idx, patches,
                 plan_pc, candidate_files, reads, all_failed, exec_vars,
                 selections>>
  /\ UNCHANGED ext_vars

MergeNext == UpdateMergeState

SpecMerge == MergeInit /\ [][MergeNext]_vars

\* ------------------------------------------------------------------------
\* Strategy selection on its own: _select_mode on the cost of a text, between
\* updates of the EvolutionMemory
\* ------------------------------------------------------------------------
SelectLimits ==
  {[safe_file_token_limit |-> t, safe_fn_token_limit |-> SAFE_FN_TOKEN_LIMIT] :
     t \in {400, AGGRESSIVE_LIMIT + 1, 650, SAFE_FILE_TOKEN_LIMIT}}

\* texts whose cost is 0, 1, and at and around both limits
SelectTexts ==
  {<<>>} \cup
  {<<Run("x", n)>> :
     n \in {3, 4 * AGGRESSIVE_LIMIT, 4 * AGGRESSIVE_LIMIT + 3,
            4 * (AGGRESSIVE_LIMIT + 1),
            4 * planner.safe_file_token_limit,
            4 * planner.safe_file_token_limit + 3,
            4 * (planner.safe_file_token_limit + 1),
            4 * (planner.safe_file_token_limit + 500)}}

SelectInit ==
  /\ planner \in SelectLimits
  /\ main = [f \in Files |-> Absent]
  /\ unreadable = {}
  /\ memory = EmptyMemory
  /\ memory_file = EmptyMemory
  /\ PlanIdle
  /\ ExecIdle
  /\ ExtIdle
  /\ auto_apply = FALSE
  /\ ace_cfg = DefaultAce
  /\ auto_merge_threshold = DEFAULT_THRESHOLD

SelectMode ==
  /\ Len(selections) < MaxSelections
  /\ \E text \in SelectTexts :
       selections' = Append(selections,
         [tokens |-> estimate_tokens(text),
          limit |-> planner.safe_file_token_limit,
          mode |-> select_mode(estimate_tokens(text)),
          memory |-> memory])
  /\ UNCHANGED <<main, planner, memory, memory_file, unreadable, rel_files, idx, patches,
                 plan_pc, candidate_files, reads, all_failed, exec_vars,
                 state_file, outcomes>>
  /\ UNCHANGED ext_vars

\* an earlier file leaves its mark in the EvolutionMemory
RecordFile ==
  /\ file_stats(memory, FileA).success + file_stats(memory, FileA).fail < MaxRecords
  /\ \/ \E mode \in {"AGGRESSIVE", "SMALL_PATCH", "FUNCTION_OR_CHUNK", "MINIMAL"} :
          memory' = record_file_pass(memory, FileA, mode)
     \/ memory' = record_file_fail(memory, FileA, "exception")
  /\ save
  /\ UNCHANGED <<main, planner, unreadable, rel_files, idx, patches, plan_pc,
                 candidate_files, reads, all_failed, exec_vars, state_file,
                 outcomes, selections>>
  /\ UNCHANGED ext_vars

SelectNext == SelectMode \/ RecordFile

SpecSelect == SelectInit /\ [][SelectNext]_vars

\* ------------------------------------------------------------------------
\* The local fallback on its own: _minimal_autopatch applied to a text, then
\* to its own output
\* ------------------------------------------------------------------------
Line(c, n) == <<Run(c, n), Run("n", 1)>>

\* files made of an optional docstring of their own, import lines, a line of
\* code, an optional late import, and zero, one or two newlines at the end
AutopatchInputs ==
  { JoinAll(<<doc, imports, <<Run("x", 30)>>, late, NL(tail)>>) :
      doc \in {<<>>, <<Run("q", 3), Run("t", 10), Run("q", 3), Run("n", 1)>>},
      imports \in {<<>>, Line("i", 10),
                   Cat(Line("i", 10), Cat(Line("f", 8), Line("i", 10))),
                   Cat(Line("i", 12), Line("i", 9))},
      late \in {<<>>, Cat(NL(1), <<Run("i", 10)>>)},
      tail \in 0..2 }

AutopatchInit ==
  /\ planner = DefaultLimits
  /\ main = [f \in Files |-> Absent]
  /\ unreadable = {}
  /\ memory = EmptyMemory
  /\ memory_file = EmptyMemory
  /\ PlanIdle
  /\ ExecIdle
  /\ auto_apply = FALSE
  /\ ace_cfg = DefaultAce
  /\ auto_merge_threshold = DEFAULT_THRESHOLD
  /\ \E c \in AutopatchInputs : autopatch_runs = <<c>>
  /\ SandboxIdle
  /\ LaterIdle

base_vars ==
  <<main, planner, memory, memory_file, rel_files, idx, patches, plan_pc, unreadable,
    candidate_files, reads, all_failed, exec_vars, state_file, outcomes,
    selections>>

\* the fallback applied to the last text
MinimalAutopatch ==
  /\ Len(autopatch_runs) <= MaxApplications
  /\ autopatch_runs' =
       Append(autopatch_runs,
              minimal_autopatch(FileA, autopatch_runs[Len(autopatch_runs)]).new_code)
  /\ UNCHANGED <<base_vars, sandbox_vars, later_vars>>

AutopatchNext == MinimalAutopatch

SpecAutopatch == AutopatchInit /\ [][AutopatchNext]_vars

\* ------------------------------------------------------------------------
\* Candidate discovery on its own: _discover_target_files on a project with
\* tests, caches, a virtual environment, an old sandbox and empty files
\* ------------------------------------------------------------------------
FileM == <<"src", "pkg", "m.py">>
FileV == <<"src", ".venv", "v.py">>
FileW == <<"src", "my.venv", "w.py">>
FileC == <<"src", "pkg", "__pycache__", "c.py">>
FileS == <<"src", "sandbox_repo", "src", "a.py">>
FileX == <<"src", "pkg", "test_x.py">>
FileZ == <<"lib", "z.py">>

\* the files no project of this part is without, none of them empty
SkippedFiles == {FileT, FileV, FileW, FileC, FileS, FileX, FileZ}

DiscoverTrees ==
  { [f \in SkippedFiles |-> File(Tiny)] @@
    (FileA :> a) @@ (FileB :> b) @@ (FileM :> m) :
      a \in {Absent, File(<<>>), File(Tiny), File(TinyDoc)},
      b \in {File(<<>>), File(Mid)},
      m \in {Absent, File(Tiny)} }

\* the ace blocks discovery is run with: the number of files as an integer
\* (8, 1, 0, -1), as a text that is no number, as a fraction, as a digit that
\* is no decimal digit, and left out
DiscoverConfigs ==
  {[max_files_per_run |-> t] :
     t \in {<<"8">>, <<"1">>, <<"0">>, <<"-", "1">>, <<"m", "a", "n", "y">>,
            <<"2", ".", "5">>, <<SUPERSCRIPT_TWO>>}}
  \cup {[sandbox_dir |-> <<"sandbox_repo">>]}

DiscoverInit ==
  /\ planner = DefaultLimits
  /\ main \in DiscoverTrees
  /\ unreadable = {}
  /\ memory = EmptyMemory
  /\ memory_file = EmptyMemory
  /\ PlanIdle
  /\ ExecIdle
  /\ ExtIdle
  /\ auto_apply = FALSE
  /\ ace_cfg \in DiscoverConfigs
  /\ auto_merge_threshold = DEFAULT_THRESHOLD

\* one call of _discover_target_files
DiscoverTargetFiles ==
  /\ \E files \in discover_target_files : target_files' = files
  /\ UNCHANGED <<main, planner, memory, memory_file, rel_files, idx, patches, plan_pc,
                 unreadable, candidate_files, reads, all_failed, pc, dry_run,
                 auto_apply, ace_cfg, auto_merge_threshold, run_patches, sandbox,
                 applied_in_sandbox, proc, test_ok, test_output, result, processed_log,
                 approval_queue, runs, hist, state_file, outcomes, selections,
                 ext_vars>>

\* _discover_target_files raises ValueError out of the run that called it
DiscoverRaises ==
  /\ pc # "raised"
  /\ max_files_raises(ace_cfg)
  /\ pc' = "raised"
  /\ UNCHANGED <<main, planner, memory, memory_file, rel_files, idx, patches, plan_pc,
                 unreadable, candidate_files, reads, all_failed, dry_run,
                 auto_apply, ace_cfg, auto_merge_threshold, target_files,
                 run_patches, sandbox, applied_in_sandbox, proc, test_ok, test_output,
                 result, processed_log, approval_queue, runs, hist, state_file,
                 outcomes, selections, ext_vars>>

\* an earlier run has logged the candidates it was given
LogProcessed ==
  /\ Len(processed_log) < MaxRuns
  /\ target_files # <<>>
  /\ log_processed(target_files, "applied")
  /\ UNCHANGED <<main, planner, memory, memory_file, rel_files, idx, patches, plan_pc,
                 unreadable, candidate_files, reads, all_failed, pc, dry_run,
                 auto_apply, ace_cfg, auto_merge_threshold, target_files,
                 run_patches, sandbox, applied_in_sandbox, proc, test_ok, test_output,
                 result, approval_queue, runs, hist, state_file, outcomes,
                 selections, ext_vars>>

DiscoverNext == DiscoverTargetFiles \/ DiscoverRaises \/ LogProcessed

SpecDiscover == DiscoverInit /\ [][DiscoverNext]_vars

\* ------------------------------------------------------------------------
\* Sandbox preparation on its own: _prepare_sandbox on a project directory,
\* for the sandbox directories ace.sandbox_dir can name
\* ------------------------------------------------------------------------
\* the names of the model's directories and files, in one listing order
NameOrder ==
  <<".git", ".venv", "HEAD", "__pycache__", "a.py", "sandbox_repo", "sbx",
    "src", "tmp", "v.py">>

\* the names that are files; every other name is a directory
IsFileName(name) == name \in {"HEAD", "a.py", "v.py"}

Reverse(seq) == [k \in 1..Len(seq) |-> seq[Len(seq) + 1 - k]]

IsPrefix(a, b) == Len(a) <= Len(b) /\ SubSeq(b, 1, Len(a)) = a

\* a path with the directories above it
Prefixes(path) == {SubSeq(path, 1, k) : k \in 1..Len(path)}

\* os.scandir(dir): the names in dir, in the order the file system gives
\* them (one order or its reverse)
scandir(fs, dir, up) ==
  SelectSeq(IF up THEN NameOrder ELSE Reverse(NameOrder),
            LAMBDA name : Append(dir, name) \in fs)

IGNORED_NAMES == {".git", ".venv", "sandbox_repo", "__pycache__"}

\* _ignore: the names copytree leaves out of a directory
ignore(names) == {names[k] : k \in {j \in 1..Len(names) : names[j] \in IGNORED_NAMES}}

\* the entries of src that copytree copies
copied_names(names) == SelectSeq(names, LAMBDA name : name \notin ignore(names))

\* shutil.rmtree(sandbox_dir)
rmtree(fs, dir) == {path \in fs : ~IsPrefix(dir, path)}

\* shutil.copytree(src, dst, ignore): the entries of src are listed, dst is
\* made with the directories above it (an existing dst raises
\* FileExistsError), then each entry that is not ignored is copied, a
\* directory by a nested copytree.  A destination deeper than MaxPathDepth
\* stands for the depth at which Python gives up (RecursionError, or the
\* file system's ENAMETOOLONG).  Result: [fs, ok].
RECURSIVE copytree(_, _, _, _)
RECURSIVE copy_entries(_, _, _, _, _)
RECURSIVE after_directory(_, _, _, _, _)
copytree(fs, src, dst, up) ==
  IF dst \in fs \/ Len(dst) > MaxPathDepth THEN [fs |-> fs, ok |-> FALSE]
  ELSE copy_entries(fs \cup Prefixes(dst), src, dst,
                    copied_names(scandir(fs, src, up)), up)

copy_entries(fs, src, dst, names, up) ==
  IF names = <<>> THEN [fs |-> fs, ok |-> TRUE]
  ELSE IF IsFileName(Head(names))
  THEN copy_entries(fs \cup {Append(dst, Head(names))}, src, dst, Tail(names), up)
  ELSE after_directory(copytree(fs, Append(src, Head(names)),
                                Append(dst, Head(names)), up),
                       src, dst, Tail(names), up)

after_directory(r, src, dst, names, up) ==
  IF ~r.ok THEN r ELSE copy_entries(r.fs, src, dst, names, up)

\* _prepare_sandbox: the old sandbox is removed (when it cannot be, it is
\* still there for copytree), then the project is copied into sandbox_dir
prepare_sandbox(fs, removable, up) ==
  copytree(IF sandbox_dir \in fs /\ removable THEN rmtree(fs, sandbox_dir) ELSE fs,
           <<>>, sandbox_dir, up)

\* projects: a source file and a repository at the top, a nested repository,
\* a virtual environment and a bytecode cache, with or without a tmp
\* directory and a sandbox left by an earlier process
ProjectTrees ==
  { UNION {Prefixes(path) : path \in
      {<<"src", "a.py">>, <<".git", "HEAD">>, <<"src", ".git", "HEAD">>,
       <<".venv", "v.py">>, <<"src", "__pycache__", "a.py">>} \cup opt} :
    opt \in SUBSET {<<"tmp">>, <<"sandbox_repo", "src", "a.py">>,
                    <<"sbx", "src", "a.py">>} }

SandboxDirs ==
  {<<"sandbox_repo">>, <<"sbx">>, <<"tmp", "sandbox_repo">>, <<"tmp", "sbx">>}

SandboxInit ==
  /\ planner = DefaultLimits
  /\ main = [f \in Files |-> Absent]
  /\ unreadable = {}
  /\ memory = EmptyMemory
  /\ memory_file = EmptyMemory
  /\ PlanIdle
  /\ ExecIdle
  /\ AutopatchIdle
  /\ LaterIdle
  /\ auto_apply = FALSE
  /\ ace_cfg = DefaultAce
  /\ auto_merge_threshold = DEFAULT_THRESHOLD
  /\ project \in ProjectTrees
  /\ sandbox_dir \in SandboxDirs
  /\ prepare_result = "none"
  /\ prepares = 0

\* one _prepare_sandbox, at the start of a cycle
PrepareSandboxTree ==
  /\ prepares < MaxRuns
  /\ \E removable \in BOOLEAN, up \in BOOLEAN :
       \E r \in {prepare_sandbox(project, removable, up)} :
         /\ project' = r.fs
         /\ prepare_result' = IF r.ok THEN "ok" ELSE "raised"
  /\ prepares' = prepares + 1
  /\ UNCHANGED sandbox_dir
  /\ UNCHANGED <<base_vars, autopatch_runs, later_vars>>

SandboxNext == PrepareSandboxTree

SpecSandbox == SandboxInit /\ [][SandboxNext]_vars

\* ------------------------------------------------------------------------
\* The configuration on its own: settings.yaml is edited between the cycles
\* of one long-lived executor built by run_ace_pipeline
\* ------------------------------------------------------------------------
\* an ace block that sets every key the executor reads
EditedAce ==
  [max_files_per_run |-> <<"1">>, max_test_runtime_sec |-> 60,
   auto_merge_threshold |-> 2, sandbox_dir |-> <<"sbx">>]

\* the contents settings.yaml goes through ("none": the key is absent)
SettingsFiles ==
  [fers_profile : {"none", "FAST_SAFE"}, global_profile : {"none", "DEEP"},
   ace : {DefaultAce, EditedAce}, fers : {DefaultLimits, LowLimits}]

\* the profiles block of settings.yaml, the same in every content
profiles ==
  [FAST_SAFE |-> [fers |-> LowLimits],
   BALANCED |-> [ace |-> [llama_timeout_sec |-> 20]]]

CliProfiles == {"fast", "balanced", "deep"}

PROFILE_MAP(p) ==
  CASE p = "fast" -> "FAST_SAFE"
    [] p = "balanced" -> "BALANCED"
    [] p = "deep" -> "DEEP"

\* str.upper on the profile names in use
Upper(name) ==
  CASE name = "fast" -> "FAST"
    [] name = "balanced" -> "BALANCED"
    [] name = "deep" -> "DEEP"
    [] OTHER -> name

\* block.get(key, default)
ace_get(block, key, default) ==
  IF key \in DOMAIN block THEN block[key] ELSE default

\* dict.update
update(block, upd) ==
  [k \in DOMAIN block \cup DOMAIN upd |->
     IF k \in DOMAIN upd THEN upd[k] ELSE block[k]]

\* what yaml.safe_load gives for the file
load(file) ==
  [fers_profile |-> file.fers_profile, global_profile |-> file.global_profile,
   ace |-> file.ace, fers |-> file.fers]

\* raw.get("fers_profile") or raw.get("global_profile") or "BALANCED"
selected_profile(r) ==
  IF r.fers_profile # "none" THEN Upper(r.fers_profile)
  ELSE IF r.global_profile # "none" THEN Upper(r.global_profile)
  ELSE "BALANCED"

with_override(r, override) ==
  IF override # "none" THEN [r EXCEPT !.fers_profile = Upper(override)] ELSE r

merge_profile(r, block) ==
  [r EXCEPT !.ace = IF "ace" \in DOMAIN block THEN update(@, block.ace) ELSE @,
            !.fers = IF "fers" \in DOMAIN block THEN update(@, block.fers) ELSE @]

\* apply_profile: the raw it leaves
apply_profile(r, override) ==
  merge_profile(with_override(r, override),
                ace_get(profiles, selected_profile(with_override(r, override)),
                        <<>>))

\* load_config: the override is written into raw after the construction
load_config(r, override) ==
  IF override # "none" /\ override \in CliProfiles
  THEN [r EXCEPT !.fers_profile = PROFILE_MAP(override)]
  ELSE r

\* auto_sync on the configuration object c = [raw, last_loaded_timestamp,
\* selected]: reload and re-apply the profile if the file is newer
auto_sync(c) ==
  IF settings.mtime > c.last_loaded_timestamp
  THEN [raw |-> apply_profile(load(settings), "none"),
        last_loaded_timestamp |-> clock,
        selected |-> selected_profile(load(settings))]
  ELSE c

the_config ==
  [raw |-> raw, last_loaded_timestamp |-> last_loaded_timestamp,
   selected |-> selected]

set_config(c) ==
  /\ raw' = c.raw
  /\ last_loaded_timestamp' = c.last_loaded_timestamp
  /\ selected' = c.selected

\* what the configuration actions leave alone
config_rest ==
  <<main, memory, memory_file, rel_files, idx, patches, plan_pc, unreadable,
    candidate_files, reads, all_failed, pc, dry_run, auto_apply, target_files,
    run_patches, sandbox, applied_in_sandbox, proc, test_ok, test_output,
    result, processed_log, approval_queue, runs, hist, state_file, outcomes,
    selections, autopatch_runs, project, prepare_result, prepares,
    profile_override, broken, chunk_vars, crash_vars, third_vars>>

\* the values ACEExecutor.__init__ keeps in attributes of its own
executor_cache == <<planner, sandbox_dir, auto_merge_threshold>>

\* main() of run_ace_pipeline: load_config, then ACEExecutor(config=config)
ConfigInit ==
  /\ main = [f \in Files |-> Absent]
  /\ unreadable = {}
  /\ memory = EmptyMemory
  /\ memory_file = EmptyMemory
  /\ PlanIdle
  /\ ExecIdle
  /\ auto_apply = FALSE
  /\ state_file = NoStateFile
  /\ outcomes = <<>>
  /\ selections = <<>>
  /\ AutopatchIdle
  /\ ChunkIdle
  /\ CrashIdle
  /\ ThirdIdle
  /\ broken = {}
  /\ project = {}
  /\ prepare_result = "none"
  /\ prepares = 0
  /\ clock = 1
  /\ cfg_pc = "idle"
  /\ last_loaded_timestamp = 1
  /\ profile_override \in {"none"} \cup CliProfiles
  /\ \E file \in SettingsFiles :
       /\ settings = [fers_profile |-> file.fers_profile,
                      global_profile |-> file.global_profile,
                      ace |-> file.ace, fers |-> file.fers, mtime |-> 0]
       /\ \E c \in {load_config(apply_profile(load(file), "none"),
                                profile_override)} :
            /\ raw = apply_profile(c, "none")
            /\ selected = selected_profile(c)
  /\ ace_cfg = raw.ace
  /\ planner = raw.fers
  /\ sandbox_dir = ace_get(raw.ace, "sandbox_dir", <<"sandbox_repo">>)
  /\ auto_merge_threshold =
       ace_get(raw.ace, "auto_merge_threshold", DEFAULT_THRESHOLD)

\* somebody saves another content to settings.yaml between two cycles
EditSettings ==
  /\ cfg_pc = "idle"
  /\ clock < MaxClock
  /\ \E file \in SettingsFiles :
       /\ file # load(settings)
       /\ settings' = [fers_profile |-> file.fers_profile,
                       global_profile |-> file.global_profile,
                       ace |-> file.ace, fers |-> file.fers,
                       mtime |-> clock + 1]
  /\ clock' = clock + 1
  /\ UNCHANGED <<raw, last_loaded_timestamp, selected, cfg_pc, ace_cfg>>
  /\ UNCHANGED <<executor_cache, config_rest>>

Load ==
  /\ cfg_pc = "idle"
  /\ raw' = load(settings)
  /\ last_loaded_timestamp' = clock
  /\ selected' = "none"
  /\ UNCHANGED <<settings, clock, cfg_pc, ace_cfg>>
  /\ UNCHANGED <<executor_cache, config_rest>>

ApplyProfile ==
  /\ cfg_pc = "idle"
  /\ raw' = apply_profile(raw, "none")
  /\ selected' = selected_profile(raw)
  /\ UNCHANGED <<settings, last_loaded_timestamp, clock, cfg_pc, ace_cfg>>
  /\ UNCHANGED <<executor_cache, config_rest>>

AutoSync ==
  /\ cfg_pc = "idle"
  /\ set_config(auto_sync(the_config))
  /\ UNCHANGED <<settings, clock, cfg_pc, ace_cfg>>
  /\ UNCHANGED <<executor_cache, config_rest>>

\* the first statements of run_full_refactor_cycle
CycleStart ==
  /\ cfg_pc = "idle"
  /\ set_config(auto_sync(the_config))
  /\ ace_cfg' = auto_sync(the_config).raw.ace
  /\ cfg_pc' = "cycle"
  /\ UNCHANGED <<settings, clock>>
  /\ UNCHANGED <<executor_cache, config_rest>>

CycleEnd ==
  /\ cfg_pc = "cycle"
  /\ cfg_pc' = "idle"
  /\ UNCHANGED <<settings, raw, last_loaded_timestamp, clock, selected, ace_cfg>>
  /\ UNCHANGED <<executor_cache, config_rest>>

ConfigNext ==
  \/ EditSettings
  \/ Load
  \/ ApplyProfile
  \/ AutoSync
  \/ CycleStart
  \/ CycleEnd

SpecConfig == ConfigInit /\ [][ConfigNext]_vars

\* ------------------------------------------------------------------------
\* Runs of an executor some of whose stores cannot be written
\* ------------------------------------------------------------------------
FaultyInit ==
  /\ planner = DefaultLimits
  /\ main \in {(FileA :> Absent) @@ (FileB :> File(<<>>)) @@ (FileT :> Absent),
               (FileA :> File(TinyDoc)) @@ (FileB :> File(<<>>)) @@ (FileT :> Absent)}
  /\ unreadable \in {{}, {FileA}}
  /\ memory = EmptyMemory
  /\ memory_file = EmptyMemory
  /\ PlanIdle
  /\ ExecIdle
  /\ AutopatchIdle
  /\ SandboxIdle
  /\ ConfigIdle
  /\ ChunkIdle
  /\ CrashIdle
  /\ ThirdIdle
  /\ broken \in SUBSET Stores
  /\ auto_apply \in BOOLEAN
  /\ ace_cfg = DefaultAce
  /\ auto_merge_threshold \in 1..2

SpecFaulty == FaultyInit /\ [][Next]_vars

\* ------------------------------------------------------------------------
\* Termination: runs under fair scheduling of their steps, next to a
\* chunk_text call executed one loop iteration at a time
\* ------------------------------------------------------------------------
\* function bodies over the function budget: one chunk, an exact chunk, and
\* bodies that need two and three chunks
ChunkInputs ==
  {<<>>, <<Run("x", 1)>>, <<Run("x", CHUNK_SIZE)>>, <<Run("x", CHUNK_SIZE + 1)>>,
   <<Run("x", 2 * CHUNK_SIZE)>>}

\* a file over the lowered file budget whose one function is over the
\* lowered function budget and is rewritten in two chunks
OneBigFn ==
  <<Run("x", 1500), Run("n", 1), Run("D", 8), Run("x", 1300), Run("n", 1)>>

\* step = max(1, size - overlap)
chunk_step(size, overlap) == Max(1, size - overlap)

LiveInit ==
  /\ planner = LowLimits
  /\ main \in {(FileA :> Absent) @@ (FileB :> File(<<>>)) @@ (FileT :> Absent),
               (FileA :> File(OneBigFn)) @@ (FileB :> File(<<>>)) @@ (FileT :> Absent)}
  /\ unreadable \in {{}, {FileA}}
  /\ memory = EmptyMemory
  /\ memory_file = EmptyMemory
  /\ PlanIdle
  /\ ExecIdle
  /\ AutopatchIdle
  /\ SandboxIdle
  /\ ConfigIdle
  /\ CrashIdle
  /\ ThirdIdle
  /\ broken = {}
  /\ ChunkIdle
  /\ auto_apply \in BOOLEAN
  /\ ace_cfg = DefaultAce
  /\ auto_merge_threshold = 1

\* the process has one thread: the call of chunk_text on its own is made,
\* and goes on, once the runs of the process are over
RunsOver == pc \in {"done", "raised"} /\ runs = MaxRuns

\* the call chunk_text(fn_body, CHUNK_SIZE, CHUNK_OVERLAP), up to the loop
ChunkTextCall ==
  /\ RunsOver
  /\ chunk_pc = "idle"
  /\ \E text \in ChunkInputs :
       /\ chunk_in' = text
       /\ chunk_pc' = IF text = <<>> THEN "returned" ELSE "loop"
  /\ UNCHANGED <<chunk_i, chunk_list>>
  /\ UNCHANGED <<base_vars, autopatch_runs, sandbox_vars, config_vars, broken,
                 crash_vars, third_vars>>

\* one iteration of for i in range(0, len(text), step)
ChunkTextStep ==
  /\ RunsOver
  /\ chunk_pc = "loop"
  /\ chunk_list' = Append(chunk_list, Slice(chunk_in, chunk_i, chunk_i + CHUNK_SIZE))
  /\ IF \/ chunk_i + CHUNK_SIZE >= TLen(chunk_in)
        \/ chunk_i + chunk_step(CHUNK_SIZE, CHUNK_OVERLAP) >= TLen(chunk_in)
     THEN chunk_pc' = "returned" /\ UNCHANGED chunk_i
     ELSE /\ chunk_i' = chunk_i + chunk_step(CHUNK_SIZE, CHUNK_OVERLAP)
          /\ UNCHANGED chunk_pc
  /\ UNCHANGED chunk_in
  /\ UNCHANGED <<base_vars, autopatch_runs, sandbox_vars, config_vars, broken,
                 crash_vars, third_vars>>

\* one iteration of the loop of plan_evolution on a readable candidate: the
\* steps that PlanFile takes, under the condition that enables PlanFile
\* (every collaborator call returns, raises or times out within its bound)
PlanFileIteration ==
  /\ plan_pc = "loop" /\ idx <= Len(rel_files)
  /\ read_file(rel_files[idx]).kind = "ok"
  /\ read_file(rel_files[idx]).content # <<>>
  /\ idx' = idx + 1

\* the other steps of a run that has started
RunStep ==
  \/ PlanFileReadError
  \/ PlanReturn
  \/ PlanNoChanges
  \/ PlanDone
  \/ PrepareSandbox
  \/ PrepareSandboxRaises
  \/ SandboxNoChanges
  \/ ApplyPatchesInSandbox
  \/ RunPytestInSandbox
  \/ FailTests
  \/ DryRunOk
  \/ AwaitApproval
  \/ ApplyPatchesInMainRepo

LiveNext ==
  \/ RunNoFiles
  \/ RunStart
  \/ PlanFile
  \/ RunStep
  \/ ChunkTextCall
  \/ ChunkTextStep

SpecLive ==
  /\ LiveInit
  /\ [][LiveNext]_vars
  /\ WF_idx(PlanFileIteration)
  /\ WF_vars(RunStep)
  /\ WF_vars(ChunkTextStep)

\* ------------------------------------------------------------------------
\* The MergeState store under interruption: _save_state one system call at a
\* time, the process being killed and started again at any point of it
\* ------------------------------------------------------------------------
CrashInit ==
  /\ planner = DefaultLimits
  /\ main = [f \in Files |-> Absent]
  /\ unreadable = {}
  /\ memory = EmptyMemory
  /\ memory_file = EmptyMemory
  /\ PlanIdle
  /\ ExecIdle
  /\ ExtIdle
  /\ auto_apply = FALSE
  /\ ace_cfg = DefaultAce
  /\ auto_merge_threshold \in 1..DEFAULT_THRESHOLD

crash_rest ==
  <<main, planner, memory, memory_file, unreadable, rel_files, idx, patches,
    plan_pc, candidate_files, reads, all_failed, exec_vars, selections,
    autopatch_runs, sandbox_vars, config_vars, broken, chunk_vars, third_vars>>

\* _update_merge_state up to the call of _save_state: the state is loaded and
\* the new one built in memory
UpdateBegin ==
  /\ save_pc = "idle"
  /\ Len(outcomes) < MaxUpdates
  /\ \E success \in BOOLEAN :
       /\ pending' = merge_state(success)
       /\ outcomes' = Append(outcomes, success)
  /\ prev_state' = state_file
  /\ interrupted' = FALSE
  /\ save_pc' = "open"
  /\ UNCHANGED <<state_file, state_written>>
  /\ UNCHANGED crash_rest

\* write_text, open(path, "w"): the file is created or truncated
WriteOpen ==
  /\ save_pc = "open"
  /\ state_file' = pending
  /\ state_written' = "empty"
  /\ save_pc' = "write"
  /\ UNCHANGED <<pending, prev_state, interrupted, outcomes>>
  /\ UNCHANGED crash_rest

\* write_text, f.write: some of the text has reached the file
WriteSome ==
  /\ save_pc = "write"
  /\ state_written' = "partial"
  /\ save_pc' = "close"
  /\ UNCHANGED <<state_file, pending, prev_state, interrupted, outcomes>>
  /\ UNCHANGED crash_rest

\* write_text, the end of the with block: the rest is flushed
WriteClose ==
  /\ save_pc = "close"
  /\ state_written' = "whole"
  /\ save_pc' = "idle"
  /\ UNCHANGED <<state_file, pending, prev_state, interrupted, outcomes>>
  /\ UNCHANGED crash_rest

\* the process is killed during the write and started again
Interrupt ==
  /\ save_pc # "idle"
  /\ save_pc' = "idle"
  /\ interrupted' = TRUE
  /\ UNCHANGED <<state_file, state_written, pending, prev_state, outcomes>>
  /\ UNCHANGED crash_rest

CrashNext ==
  \/ UpdateBegin
  \/ WriteOpen
  \/ WriteSome
  \/ WriteClose
  \/ Interrupt

SpecCrash == CrashInit /\ [][CrashNext]_vars

\* ------------------------------------------------------------------------
\* The MergeState store with a state file the program did not write: updates
\* on a file that something else has put any content into
\* ------------------------------------------------------------------------
\* the contents a file can have: a text that is the whole of a JSON document
\* or a part of one or nothing, and for a whole document the value it holds
StateTexts == {"whole", "empty", "partial"}

StateJsons == {"record", "no_counter", "bad_counter", "array"}

\* what _load_state returns: {"merge_success_count": 0} ("default") when the
\* file is absent or json.loads raises, else the value of the document
loaded_value ==
  IF ~state_file.exists \/ state_written # "whole" THEN "default" ELSE state_json

\* _update_merge_state raises: state.get and state[...] = ... on a value that
\* is no dict, int() on a counter that is no number
update_raises(success) ==
  \/ loaded_value = "array"
  \/ loaded_value = "bad_counter" /\ success

CorruptInit ==
  /\ planner = DefaultLimits
  /\ main = [f \in Files |-> Absent]
  /\ unreadable = {}
  /\ memory = EmptyMemory
  /\ memory_file = EmptyMemory
  /\ PlanIdle
  /\ ExecIdle
  /\ ExtIdle
  /\ auto_apply = FALSE
  /\ ace_cfg = DefaultAce
  /\ auto_merge_threshold \in 1..DEFAULT_THRESHOLD

corrupt_rest ==
  <<main, planner, memory, memory_file, unreadable, rel_files, idx, patches,
    plan_pc, candidate_files, reads, all_failed, exec_vars, selections,
    autopatch_runs, sandbox_vars, config_vars, broken, chunk_vars, save_pc,
    pending, interrupted, restarts, selected_ever, call_vars>>

\* the state file is replaced from outside the program
EditStateFile ==
  /\ Len(outcomes) < MaxUpdates
  /\ \E text \in StateTexts : \E json \in StateJsons : \E count \in 0..1 :
       /\ state_written' = text
       /\ state_json' = json
       /\ state_file' = [exists |-> TRUE,
                         merge_success_count |-> IF json = "record" THEN count ELSE 0,
                         auto_merge_ready |-> FALSE, last_update_ts |-> 0]
  /\ update_result' = "none"
  /\ UNCHANGED <<outcomes, prev_state>>
  /\ UNCHANGED corrupt_rest

\* the state file is deleted
RemoveStateFile ==
  /\ Len(outcomes) < MaxUpdates
  /\ state_file.exists
  /\ state_file' = NoStateFile
  /\ state_written' = "whole"
  /\ state_json' = "record"
  /\ update_result' = "none"
  /\ UNCHANGED <<outcomes, prev_state>>
  /\ UNCHANGED corrupt_rest

\* _update_merge_state returns: the state is built and saved
UpdateReturns ==
  /\ Len(outcomes) < MaxUpdates
  /\ \E success \in BOOLEAN :
       /\ ~update_raises(success)
       /\ update_merge_state(success)
  /\ state_written' = "whole"
  /\ state_json' = "record"
  /\ update_result' = "returned"
  /\ prev_state' = state_file
  /\ UNCHANGED corrupt_rest

\* _update_merge_state raises before _save_state
UpdateRaises ==
  /\ Len(outcomes) < MaxUpdates
  /\ \E success \in BOOLEAN :
       /\ update_raises(success)
       /\ outcomes' = Append(outcomes, success)
  /\ update_result' = "raised"
  /\ prev_state' = state_file
  /\ UNCHANGED <<state_file, state_written, state_json>>
  /\ UNCHANGED corrupt_rest

CorruptNext ==
  \/ EditStateFile
  \/ RemoveStateFile
  \/ UpdateReturns
  \/ UpdateRaises

SpecCorrupt == CorruptInit /\ [][CorruptNext]_vars

\* ------------------------------------------------------------------------
\* The EvolutionMemory store over several planning cycles, the planner being
\* constructed again (a new process, a new executor) between any two steps
\* ------------------------------------------------------------------------
\* over the lowered file budget, with one function within the function budget
OneFn ==
  <<Run("i", 9), Run("n", 1), Run("x", 2300), Run("n", 1),
    Run("D", 8), Run("x", 400), Run("n", 1)>>

RestartTrees ==
  { (FileA :> File(a)) @@ (FileB :> b) @@ (FileT :> File(Tiny)) :
      a \in {Tiny, OneFn}, b \in {Absent, File(Tiny)} }

RestartLists == {<<FileA>>, <<FileB, FileA>>}

RestartInit ==
  /\ planner = LowLimits
  /\ main \in RestartTrees
  /\ unreadable = {}
  /\ memory = EmptyMemory
  /\ memory_file = EmptyMemory
  /\ PlanIdle
  /\ ExecIdle
  /\ AutopatchIdle
  /\ SandboxIdle
  /\ ConfigIdle
  /\ ChunkIdle
  /\ CrashIdle
  /\ ThirdIdle
  /\ broken \in {{}, {"EvolutionMemory"}}
  /\ auto_apply = FALSE
  /\ ace_cfg = DefaultAce
  /\ auto_merge_threshold = DEFAULT_THRESHOLD

\* a variant that starts from an empty memory whatever the file holds
load_memory_fresh == EmptyMemory

\* EvolutionMemory._load on the file save wrote: data is what the file holds
load_memory == memory_file

restart_rest ==
  <<main, planner, unreadable, exec_vars_but_runs, state_file, outcomes, selections,
    autopatch_runs, sandbox_vars, config_vars, broken, chunk_vars, crash_vars,
    corrupt_vars, selected_ever, call_vars>>

\* one more planning cycle of the planner in memory
PlanCycle ==
  /\ plan_pc \in {"idle", "returned", "raised"}
  /\ runs < MaxRuns
  /\ \E cs \in RestartLists : plan_call(cs)
  /\ runs' = runs + 1
  /\ UNCHANGED <<memory, memory_file, restarts>>
  /\ UNCHANGED restart_rest

\* FullEvolutionaryRefactorPlanner.__init__: a new EvolutionMemory, loaded
\* from the file; the plan in progress, if any, is gone with the old process
RestartPlanner ==
  /\ restarts < MaxRuns
  /\ memory' = load_memory
  /\ plan_pc' = "idle"
  /\ candidate_files' = <<>>
  /\ rel_files' = <<>>
  /\ idx' = 1
  /\ patches' = <<>>
  /\ reads' = <<>>
  /\ all_failed' = TRUE
  /\ restarts' = restarts + 1
  /\ UNCHANGED <<memory_file, runs>>
  /\ UNCHANGED restart_rest

RestartNext ==
  \/ PlanCycle
  \/ RestartPlanner
  \/ PlanFileNoContent
  \/ PlanFile
  \/ PlanReturn

SpecRestart == RestartInit /\ [][RestartNext]_vars

\* ------------------------------------------------------------------------
\* chunk_text on its own, called with any size and overlap
\* ------------------------------------------------------------------------
MaxSize == 4
MaxOverlap == 5

\* texts of up to seven characters; no two neighbours of a run boundary are
\* the same character
CallTexts ==
  {<<>>, <<Run("a", 1)>>, <<Run("a", 1), Run("b", 1), Run("c", 1)>>,
   <<Run("a", 2), Run("b", 2), Run("c", 1)>>,
   <<Run("a", 1), Run("b", 1), Run("c", 1), Run("d", 1), Run("e", 1), Run("f", 1)>>,
   <<Run("x", 4), Run("n", 1), Run("y", 2)>>}

\* a variant that goes on when the chunk ends exactly at the end of the text
reaches_end_strict(i, size, text) == i + size > TLen(text)

\* if i + size >= len(text): break
reaches_end(i, size, text) == i + size >= TLen(text)

ChunkInit ==
  /\ planner = DefaultLimits
  /\ main = [f \in Files |-> Absent]
  /\ unreadable = {}
  /\ memory = EmptyMemory
  /\ memory_file = EmptyMemory
  /\ PlanIdle
  /\ ExecIdle
  /\ ExtIdle
  /\ auto_apply = FALSE
  /\ ace_cfg = DefaultAce
  /\ auto_merge_threshold = DEFAULT_THRESHOLD

chunk_rest ==
  <<base_vars, autopatch_runs, sandbox_vars, config_vars, broken, crash_vars,
    corrupt_vars, restarts, selected_ever>>

\* chunk_text(text, size, overlap), up to the loop
ChunkCall ==
  /\ chunk_pc \in {"idle", "returned"}
  /\ \E text \in CallTexts, size \in 1..MaxSize, overlap \in 0..MaxOverlap :
       /\ chunk_in' = text
       /\ chunk_size' = size
       /\ chunk_overlap' = overlap
       /\ chunk_pc' = IF text = <<>> THEN "returned" ELSE "loop"
  /\ chunk_i' = 0
  /\ chunk_list' = <<>>
  /\ UNCHANGED chunk_rest

\* one iteration of for i in range(0, len(text), step)
ChunkLoop ==
  /\ chunk_pc = "loop"
  /\ chunk_list' = Append(chunk_list, Slice(chunk_in, chunk_i, chunk_i + chunk_size))
  /\ IF \/ reaches_end(chunk_i, chunk_size, chunk_in)
        \/ chunk_i + chunk_step(chunk_size, chunk_overlap) >= TLen(chunk_in)
     THEN chunk_pc' = "returned" /\ UNCHANGED chunk_i
     ELSE /\ chunk_i' = chunk_i + chunk_step(chunk_size, chunk_overlap)
          /\ UNCHANGED chunk_pc
  /\ UNCHANGED <<chunk_in, chunk_size, chunk_overlap>>
  /\ UNCHANGED chunk_rest

ChunkNext == ChunkCall \/ ChunkLoop

\* a call that has started goes on: the loop is not waiting for anything
SpecChunk == ChunkInit /\ [][ChunkNext]_vars /\ WF_vars(ChunkLoop)

\* ------------------------------------------------------------------------
\* Cycle after cycle on a source tree that no cycle changes (dry runs). The
\* planner and the tests are followed by their outcome only: discovery reads
\* the tree, the ace block and the processed log, nothing else
\* ------------------------------------------------------------------------
MaxCycles == 3

\* three eligible files, of equal or different sizes
CycleTrees ==
  { [f \in SkippedFiles |-> File(Tiny)] @@
    (FileA :> File(Tiny)) @@ (FileB :> File(b)) @@ (FileM :> File(m)) :
      b \in {Tiny, Mid}, m \in {Tiny, TinyDoc} }

CycleInit ==
  /\ planner = DefaultLimits
  /\ main \in CycleTrees
  /\ unreadable = {}
  /\ memory = EmptyMemory
  /\ memory_file = EmptyMemory
  /\ PlanIdle
  /\ ExecIdle
  /\ ExtIdle
  /\ auto_apply = FALSE
  /\ ace_cfg \in {[max_files_per_run |-> <<"1">>], [max_files_per_run |-> <<"2">>]}
  /\ auto_merge_threshold = DEFAULT_THRESHOLD

Range(seq) == {seq[k] : k \in 1..Len(seq)}

cycle_rest ==
  <<main, planner, memory, memory_file, unreadable, rel_files, idx, patches, plan_pc,
    candidate_files, reads, all_failed, auto_apply, ace_cfg, auto_merge_threshold,
    run_patches, sandbox, applied_in_sandbox, approval_queue, runs, hist, selections,
    autopatch_runs, sandbox_vars, later_vars_but_selected>>

\* run_full_refactor_cycle(dry_run=True) up to the call of the planner
RepeatStart ==
  /\ pc \in {"idle", "done"}
  /\ \E files \in discover_target_files :
       /\ target_files' = files
       /\ selected_ever' = selected_ever \cup Range(files)
  /\ dry_run' = TRUE
  /\ proc' = "none"
  /\ test_ok' = FALSE
  /\ test_output' = <<>>
  /\ result' = NoResult
  /\ pc' = "planning"
  /\ UNCHANGED <<processed_log, state_file, outcomes>>
  /\ UNCHANGED cycle_rest

\* the planner gave no patch, or the sandbox took none: NO_CHANGES
RepeatNoChanges ==
  /\ pc = "planning"
  /\ result' = Result("NO_CHANGES", 0, <<>>, 0)
  /\ pc' = "done"
  /\ UNCHANGED <<target_files, selected_ever, dry_run, proc, test_ok, test_output,
                 processed_log, state_file, outcomes>>
  /\ UNCHANGED cycle_rest

\* patches were planned and applied in the sandbox, and the tests were run
RepeatTested ==
  /\ pc = "planning"
  /\ Len(processed_log) < MaxCycles
  /\ \E p \in ProcOutcomes :
       /\ proc' = p
       /\ test_ok' = run_pytest_in_sandbox(p).ok
       /\ test_output' = run_pytest_in_sandbox(p).output
  /\ pc' = "tested"
  /\ UNCHANGED <<target_files, selected_ever, dry_run, result, processed_log,
                 state_file, outcomes>>
  /\ UNCHANGED cycle_rest

RepeatEnds == RepeatNoChanges \/ RepeatTested \/ FailTests \/ DryRunOk

RepeatNext == RepeatStart \/ RepeatEnds

\* cycles are started again and again, and each one started comes to its end
SpecCycles ==
  /\ CycleInit
  /\ [][RepeatNext]_vars
  /\ WF_vars(RepeatStart)
  /\ WF_vars(RepeatEnds)

\* ------------------------------------------------------------------------
\* Properties
\* ------------------------------------------------------------------------
Last(seq) == seq[Len(seq)]

\* length of the run of TRUE at the end of a sequence of booleans
RECURSIVE TrailingTrue(_)
TrailingTrue(seq) ==
  IF seq = <<>> \/ ~Last(seq) THEN 0
  ELSE 1 + TrailingTrue(SubSeq(seq, 1, Len(seq) - 1))

\* the run in progress has returned
Returned == pc = "done"

\* the run in progress ran the tests
TestsRan == proc # "none"

UnchangedStatuses ==
  {"NO_FILES", "NO_CHANGES", "FAIL_TESTS", "DRY_RUN_OK", "AWAITING_APPROVAL"}

Statuses == UnchangedStatuses \cup {"APPLIED", "APPLIED_AUTO_MERGE_READY"}

\* C1: a step writes to the main tree only after this run's tests passed, with
\* dry_run false and auto_apply enabled; a run that returns NO_FILES,
\* NO_CHANGES, FAIL_TESTS, DRY_RUN_OK or AWAITING_APPROVAL leaves every file
\* of the main tree as it was when the run started.
C1_MainWriteGated ==
  [][/\ main' # main => pc = "tested" /\ test_ok /\ ~dry_run /\ auto_apply
     /\ (pc' = "done" /\ result'.status \in UnchangedStatuses) => main' = hist'.main
    ]_vars

C1_Witness ==
  /\ Returned /\ test_ok /\ ~dry_run /\ auto_apply
  /\ main # hist.main

\* C2: after any sequence of updates from an absent state file, the persisted
\* count is the length of the trailing run of successes, and auto_merge_ready
\* holds iff the last update was a success and that length is at least the
\* threshold.
C2_TrailingRun ==
  IF outcomes = <<>> THEN ~state_file.exists
  ELSE /\ state_file.exists
       /\ state_file.merge_success_count = TrailingTrue(outcomes)
       /\ state_file.auto_merge_ready =
            (Last(outcomes) /\ TrailingTrue(outcomes) >= auto_merge_threshold)

\* with threshold 3, three successes then a failure: count 0, not ready
C2_Witness ==
  /\ auto_merge_threshold = 3
  /\ outcomes = <<TRUE, TRUE, TRUE, FALSE>>
  /\ state_file.merge_success_count = 0
  /\ ~state_file.auto_merge_ready

\* the status the first condition that holds selects
ExpectedStatus ==
  IF target_files = <<>> THEN "NO_FILES"
  ELSE IF run_patches = <<>> THEN "NO_CHANGES"
  ELSE IF applied_in_sandbox = 0 THEN "NO_CHANGES"
  ELSE IF ~test_ok THEN "FAIL_TESTS"
  ELSE IF dry_run THEN "DRY_RUN_OK"
  ELSE IF ~auto_apply THEN "AWAITING_APPROVAL"
  ELSE IF state_file.auto_merge_ready THEN "APPLIED_AUTO_MERGE_READY"
  ELSE "APPLIED"

\* C3: a run that returns carries one of the seven statuses, the one selected
\* by the first condition that holds: no candidates, no patches planned, none
\* applied in the sandbox, tests failed, dry run, auto-apply disabled, and
\* otherwise APPLIED, or APPLIED_AUTO_MERGE_READY when the update reported
\* readiness.
C3_StatusByFirstCondition ==
  Returned => result.status \in Statuses /\ result.status = ExpectedStatus

C3_Witness ==
  /\ Returned /\ result.status = "APPLIED_AUTO_MERGE_READY"
  /\ runs = 2 /\ auto_merge_threshold = 2

\* C4: a run whose tests failed returns FAIL_TESTS with 0 applied patches and
\* the test output as errors, has made the one update(false), which leaves the
\* count 0 and the ready flag false, has appended one "tests_failed" line to
\* the processed log, has registered no proposal and has left the main tree
\* as it was.
C4_FailTests ==
  (Returned /\ TestsRan /\ ~test_ok) =>
     /\ result = Result("FAIL_TESTS", 0, test_output, 0)
     /\ Len(outcomes) = hist.updates + 1 /\ ~Last(outcomes)
     /\ state_file.exists /\ state_file.merge_success_count = 0
     /\ ~state_file.auto_merge_ready
     /\ Len(processed_log) = hist.log + 1
     /\ Last(processed_log).status = "tests_failed"
     /\ Len(approval_queue) = hist.queue
     /\ main = hist.main

\* a failure after a success: the count goes back from 1 to 0
C4_Witness ==
  /\ Returned /\ result.status = "FAIL_TESTS"
  /\ hist.state.merge_success_count = 1
  /\ state_file.merge_success_count = 0

\* C5: a run whose tests passed, with dry_run false and auto_apply disabled,
\* has registered exactly one proposal, returns AWAITING_APPROVAL with that
\* proposal's id, which is not empty, and has made one update(true); a
\* proposal is PENDING when it is registered, and only the operator's approve
\* and reject ever change a registered proposal.
C5_AwaitingApproval ==
  /\ []((Returned /\ TestsRan /\ test_ok /\ ~dry_run /\ ~auto_apply) =>
          /\ result.status = "AWAITING_APPROVAL"
          /\ Len(approval_queue) = hist.queue + 1
          /\ result.approval_id = Last(approval_queue).id
          /\ result.approval_id # 0
          /\ \A i \in 1..hist.queue : approval_queue[i].id # result.approval_id
          /\ Len(outcomes) = hist.updates + 1 /\ Last(outcomes))
  /\ [][/\ Len(approval_queue') > Len(approval_queue) =>
             /\ Len(approval_queue') = Len(approval_queue) + 1
             /\ Last(approval_queue').status = "PENDING"
        /\ (\E i \in 1..Len(approval_queue) : approval_queue'[i] # approval_queue[i])
             => UNCHANGED <<pc, plan_pc, idx, runs, result, main, memory,
                            state_file, processed_log>>
       ]_vars

\* the second proposal is awaiting approval, the first one was approved by
\* the operator
C5_Witness ==
  /\ Returned /\ result.status = "AWAITING_APPROVAL"
  /\ Len(approval_queue) = 2 /\ hist.queue = 1
  /\ approval_queue[1].status = "APPROVED"
  /\ approval_queue[2].status = "PENDING"
  /\ result.approval_id = 2

\* C6: every run that returns has appended exactly one line to the processed
\* log, and that line lists the run's candidates.
C6_OneLogEntryPerRun ==
  Returned =>
     /\ Len(processed_log) = hist.log + 1
     /\ Last(processed_log).files = target_files

PatchedFiles == SelectSeq(reads, LAMBDA r : r.patched)

\* C8: plan_evolution returns; every candidate was processed, in order; the
\* patches are those of the candidates that got one, in candidate order; a
\* candidate whose content was read and whose collaborator calls raised
\* nothing but "unavailable" got a patch; a candidate without a patch has a
\* failure recorded against it.
C8_OnePatchPerReadable ==
  plan_pc \in {"returned", "raised"} =>
     /\ plan_pc = "returned"
     /\ Len(reads) = Len(rel_files)
     /\ \A i \in 1..Len(reads) : reads[i].file = rel_files[i]
     /\ Len(patches) = Len(PatchedFiles)
     /\ \A k \in 1..Len(patches) : patches[k].file = PatchedFiles[k].file
     /\ \A i \in 1..Len(reads) :
          /\ (reads[i].read = "ok" /\ reads[i].calls_ok) => reads[i].patched
          /\ ~reads[i].patched => file_stats(memory, reads[i].file).fail >= 1

\* C9: when every collaborator call of a plan failed, the patch of each
\* candidate is the minimal autopatch of the file's content.
C9_FallbackWhenAllCallsFail ==
  (plan_pc = "returned" /\ all_failed) =>
     \A k \in 1..Len(patches) :
        patches[k] = minimal_autopatch(patches[k].file, main[patches[k].file].text)

\* the strategy the thresholds select for a cost
StrategyFor(tokens, t1, t2) ==
  IF tokens <= t1 THEN "AGGRESSIVE"
  ELSE IF tokens <= t2 THEN "SMALL_PATCH"
  ELSE "FUNCTION_OR_CHUNK"

\* C10: with T1 < T2, the selected strategy is whole-file up to T1,
\* small-patch up to T2 and function/chunk above, and two selections of the
\* same cost agree whatever the EvolutionMemory held.
C10_SelectionByThresholds ==
  /\ \A i \in 1..Len(selections) :
       AGGRESSIVE_LIMIT < selections[i].limit =>
          selections[i].mode =
            StrategyFor(selections[i].tokens, AGGRESSIVE_LIMIT, selections[i].limit)
  /\ \A i, j \in 1..Len(selections) :
       selections[i].tokens = selections[j].tokens =>
          selections[i].mode = selections[j].mode

\* the cost T1 + 1 selected twice, before and after a memory update
C10_Witness ==
  /\ Len(selections) = 2
  /\ selections[1].tokens = AGGRESSIVE_LIMIT + 1
  /\ selections[2].tokens = AGGRESSIVE_LIMIT + 1
  /\ selections[1].memory # selections[2].memory
  /\ selections[1].limit = SAFE_FILE_TOKEN_LIMIT
  /\ selections[2].mode = "SMALL_PATCH"

\* the lines of a text that open the docstring the fallback writes
AutoDocstringLines(t) ==
  SelectSeq(splitlines(t), LAMBDA l : l = <<Run("q", 3), Run("t", 28)>>)

ImportLines(t) == SelectLines(splitlines(t), TRUE)

\* the import lines come first, strictly ascending
ImportsHoistedSorted(t) ==
  /\ \A j \in 1..Len(ImportLines(t)) : splitlines(t)[j] = ImportLines(t)[j]
  /\ \A j \in 1..(Len(ImportLines(t)) - 1) :
       TLess(ImportLines(t)[j], ImportLines(t)[j + 1])

OneTrailingNewline(t) == t # <<>> /\ t[Len(t)] = Run("n", 1)

\* C11: the fallback applied to its own output inserts no further docstring,
\* leaves the import lines first, de-duplicated and ascending, and gives a text
\* that ends with exactly one newline.
C11_FallbackKeepsInvariants ==
  \A k \in 3..Len(autopatch_runs) :
     /\ Len(AutoDocstringLines(autopatch_runs[k]))
          = Len(AutoDocstringLines(autopatch_runs[k - 1]))
     /\ ImportsHoistedSorted(autopatch_runs[k])
     /\ OneTrailingNewline(autopatch_runs[k])

\* the directories candidate discovery leaves out
ExclusionSegments == {"tests", "sandbox_repo", ".venv", "__pycache__"}

C13_NoSelfCopyNoVcs ==
  prepare_result # "none" =>
     \A path \in project :
        IsPrefix(sandbox_dir, path) =>
           /\ \A k \in (Len(sandbox_dir) + 1)..Len(path) : path[k] # ".git"
           /\ \A k \in (Len(sandbox_dir) + 1)..Len(path) :
                ~IsPrefix(sandbox_dir, SubSeq(path, k, Len(path)))

\* the words occur in the text, in this order and next to each other
Mentions(text, words) ==
  \E k \in 1..Len(text) : SubSeq(text, k, k + Len(words) - 1) = words

C15_OverrideWins ==
  (selected # "none" /\ last_loaded_timestamp >= settings.mtime) =>
    selected = IF profile_override # "none"
               THEN PROFILE_MAP(profile_override)
               ELSE selected_profile(settings)

\* C16: a cycle that has synchronised its configuration runs with the values
\* of settings.yaml as it is now, for the number of files, the test time
\* limit, the auto-merge threshold, the sandbox directory and the planner's
\* token limits.
C16_CycleUsesModifiedFile ==
  cfg_pc = "cycle" =>
    /\ ace_cfg.max_files_per_run = settings.ace.max_files_per_run
    /\ max_test_runtime_sec(ace_cfg) = max_test_runtime_sec(settings.ace)
    /\ auto_merge_threshold =
         ace_get(settings.ace, "auto_merge_threshold", DEFAULT_THRESHOLD)
    /\ sandbox_dir = ace_get(settings.ace, "sandbox_dir", <<"sandbox_repo">>)
    /\ planner = raw.fers

\* the status the run would return with every store written: the cascade of
\* run_full_refactor_cycle, with readiness computed from the count the state
\* file held when the run started
StatusWithStoresWritten ==
  IF target_files = <<>> THEN "NO_FILES"
  ELSE IF run_patches = <<>> THEN "NO_CHANGES"
  ELSE IF applied_in_sandbox = 0 THEN "NO_CHANGES"
  ELSE IF ~test_ok THEN "FAIL_TESTS"
  ELSE IF dry_run THEN "DRY_RUN_OK"
  ELSE IF ~auto_apply THEN "AWAITING_APPROVAL"
  ELSE IF (IF hist.state.exists THEN hist.state.merge_success_count ELSE 0) + 1
            >= auto_merge_threshold
       THEN "APPLIED_AUTO_MERGE_READY"
  ELSE "APPLIED"

\* the files of the main tree the run changed
MainFilesChanged == Cardinality({f \in DOMAIN main : main[f] # hist.main[f]})

\* C17: with any of the three stores failing, the steps that write a store
\* never leave the run by an exception (planning goes on after a record, the
\* step after the tests returns), and a run that returns has the status and
\* the applied patch count of the same run with every store written.
C17_WriteFailuresSwallowed ==
  /\ [](Returned =>
          /\ result.status = StatusWithStoresWritten
          /\ result.applied_patches =
               IF result.status = "DRY_RUN_OK" THEN applied_in_sandbox
               ELSE IF result.status \in {"APPLIED", "APPLIED_AUTO_MERGE_READY"}
               THEN MainFilesChanged
               ELSE 0)
  /\ [][/\ pc = "tested" => pc' \in {"tested", "done"}
        /\ memory' # memory => plan_pc' = "loop"]_vars

\* a run that reports readiness from the count in memory while neither the
\* state file nor the log could be written
C17_Witness ==
  /\ Returned /\ result.status = "APPLIED_AUTO_MERGE_READY"
  /\ broken = Stores
  /\ state_file = hist.state
  /\ Len(processed_log) = hist.log
  /\ memory_file # memory

\* C18: a run that returns DRY_RUN_OK, APPLIED or APPLIED_AUTO_MERGE_READY
\* wrote every planned patch to the sandbox and, for the two APPLIED statuses,
\* to the main tree, or else its errors field is non-empty.
C18_NoSilentDrop ==
  (Returned /\ result.status \in {"DRY_RUN_OK", "APPLIED", "APPLIED_AUTO_MERGE_READY"})
    => \/ /\ applied_in_sandbox = Len(run_patches)
          /\ result.status # "DRY_RUN_OK" => result.applied_patches = Len(run_patches)
       \/ result.errors # <<>>

\* the run in progress has not ended
Running == pc \notin {"idle", "done", "raised"}

\* C19: a run that has started eventually returns a result with one of the
\* seven statuses or raises; the loop of chunk_text eventually returns, with
\* the chunks of the text; while a plan is in its loop the candidate list is
\* fixed and the position in it never goes back.
C19_EveryRunTerminates ==
  /\ Running ~> (pc = "raised" \/ (Returned /\ result.status \in Statuses))
  /\ (chunk_pc = "loop") ~> (chunk_pc = "returned")
  /\ [](chunk_pc = "returned" =>
          chunk_list = chunk_text(chunk_in, CHUNK_SIZE, CHUNK_OVERLAP))
  /\ [][(plan_pc = "loop" /\ plan_pc' = "loop")
          => (idx' >= idx /\ rel_files' = rel_files)]_vars

\* a run whose test runner timed out has returned, and a three-chunk call of
\* chunk_text has returned
C19_Witness ==
  /\ Returned /\ proc = "hang" /\ runs = MaxRuns
  /\ chunk_pc = "returned" /\ Len(chunk_list) = 3

\* C20: after an update that was interrupted, the state file holds a whole
\* record, the one from before the update or the one the update was saving,
\* and a load gives the count of one of the two.
C20_AtomicReplace ==
  (interrupted /\ save_pc = "idle") =>
    /\ state_written = "whole"
    /\ state_file \in {prev_state, pending}
    /\ load_state \in {prev_state.merge_success_count, pending.merge_success_count}

\* C21: the state file changes only in the step that follows the tests of a
\* run, which calls the update exactly once; a run that returns NO_FILES or
\* NO_CHANGES made no update and left the count, the ready flag and the
\* timestamp of the file as they were when it started.
C21_OnlyUpdateWritesState ==
  /\ [][state_file' # state_file \/ outcomes' # outcomes =>
          /\ pc = "tested" /\ pc' = "done"
          /\ Len(outcomes') = Len(outcomes) + 1]_vars
  /\ [](Returned =>
          IF TestsRan
          THEN /\ Len(outcomes) = hist.updates + 1
               /\ state_file.last_update_ts = Len(outcomes)
               /\ state_file.last_update_ts > hist.state.last_update_ts
          ELSE /\ result.status \in {"NO_FILES", "NO_CHANGES"}
               /\ Len(outcomes) = hist.updates
               /\ state_file = hist.state)

\* a run that ended in NO_CHANGES after a run that passed its tests: the
\* count of 1 and the timestamp of that earlier run are still in the file
C21_Witness ==
  /\ Returned /\ ~TestsRan /\ result.status = "NO_CHANGES"
  /\ runs = 2
  /\ state_file.exists /\ state_file.merge_success_count = 1
  /\ state_file.last_update_ts = 1
  /\ state_file = hist.state

\* C22: an update on a state file that is absent or corrupt (a text that does
\* not parse, a JSON value that is no mapping, a counter that is no number)
\* returns, and the file then holds the count 1 after update(true) and the
\* count 0 after update(false).
C22_UpdateSurvivesCorruptFile ==
  [][(outcomes' # outcomes /\ loaded_value \in {"default", "array", "bad_counter"}) =>
       /\ update_result' = "returned"
       /\ state_file'.exists /\ state_written' = "whole" /\ state_json' = "record"
       /\ state_file'.merge_success_count = IF Last(outcomes') THEN 1 ELSE 0]_vars

\* C23: when plan_evolution has returned, every processed candidate has exactly
\* one file-level record in the memory (one success or one failure), and for a
\* candidate that got a patch the recorded last_mode is the strategy whose
\* output the patch is: the selected strategy, the small patch after a
\* whole-file attempt, or MINIMAL for the local fallback.
C23_OneUpdateNamingProducer ==
  plan_pc = "returned" =>
     \A i \in 1..Len(reads) :
        /\ file_stats(memory, reads[i].file).success
             + file_stats(memory, reads[i].file).fail = 1
        /\ reads[i].patched =>
             file_stats(memory, reads[i].file).last_mode = reads[i].producer

\* C24: a patch that function mode made by rewriting functions is the content
\* with the span of each rewritten function replaced by its new body, the text
\* outside these spans being kept, also when several functions were rewritten
\* and their new bodies differ in length from the old ones.
C24_SpansReplacedInPlace ==
  plan_pc = "returned" =>
     \A i \in 1..Len(reads) : \A k \in 1..Len(patches) :
        (reads[i].patched /\ reads[i].rewritten # {} /\ patches[k].file = reads[i].file)
          => patches[k].new_code = reads[i].in_place

\* the overlay of a profile on a block of the document: the block with the
\* keys the profile sets for it replaced
Overlaid(block, profile, section) ==
  IF profile \in DOMAIN profiles /\ section \in DOMAIN profiles[profile]
  THEN update(block, profiles[profile][section])
  ELSE block

\* C25: once a profile has been applied to the configuration read from the
\* file as it is now, the working ace and fers blocks hold, key by key, the
\* value of that profile's overlay where it sets one and the value of the
\* document elsewhere, whatever profile was applied to the object before.
C25_OverlayOnBaseOnly ==
  (selected # "none" /\ last_loaded_timestamp >= settings.mtime) =>
    /\ raw.ace = Overlaid(settings.ace, selected, "ace")
    /\ raw.fers = Overlaid(settings.fers, selected, "fers")

\* C26: once a profile name that the profiles section does not have has been
\* resolved and applied, the working ace block holds the overlay of the
\* default profile BALANCED.
C26_UnknownFallsBackToBalanced ==
  (/\ selected # "none" /\ selected \notin DOMAIN profiles
   /\ last_loaded_timestamp >= settings.mtime) =>
    /\ "llama_timeout_sec" \in DOMAIN raw.ace
    /\ raw.ace.llama_timeout_sec = profiles.BALANCED.ace.llama_timeout_sec

\* a file named in some entry of the processed log
Attempted(f) ==
  \E i \in 1..Len(processed_log) :
     \E k \in 1..Len(processed_log[i].files) : processed_log[i].files[k] = f

\* a may stand before b: not an attempted file before a never-attempted
\* one, and within a group not a larger file before a smaller one
MayPrecede(a, b) ==
  /\ Attempted(a) => Attempted(b)
  /\ (Attempted(a) = Attempted(b)) => file_size(a) <= file_size(b)

\* maxFiles where the configured value is a positive integer, else 0
PositiveMaxFiles(cfg) ==
  IF ~HasMaxFiles(cfg) THEN DEFAULT_MAX_FILES
  ELSE IF \A i \in 1..Len(cfg.max_files_per_run) : IsDecimal(cfg.max_files_per_run[i])
  THEN int_of(cfg.max_files_per_run)
  ELSE 0

\* fs is the start of an ordering of the eligible files, up to the limit
IsSelection(fs, limit) ==
  /\ \A i \in 1..Len(fs) : fs[i] \in discover_eligible
  /\ \A i, j \in 1..Len(fs) : i < j => fs[i] # fs[j] /\ MayPrecede(fs[i], fs[j])
  /\ \A f \in discover_eligible :
       (\A i \in 1..Len(fs) : fs[i] # f) => \A i \in 1..Len(fs) : MayPrecede(fs[i], f)
  /\ Len(fs) = IF limit > 0 /\ limit < Cardinality(discover_eligible)
               THEN limit ELSE Cardinality(discover_eligible)

\* C27: every call of candidate discovery returns a sequence of the eligible
\* files in which no attempted file stands before a never-attempted one and
\* sizes do not decrease within each group: its first maxFiles elements when
\* maxFiles is a positive integer, the whole of it when maxFiles is zero,
\* negative or no integer.
C27_OrderedAndTruncated ==
  [][processed_log' = processed_log =>
       /\ pc' # "raised"
       /\ IsSelection(target_files', PositiveMaxFiles(ace_cfg))]_vars

\* b holds every entry of a, with counts that are not lower
Grown(a, b) ==
  /\ DOMAIN a.files \subseteq DOMAIN b.files
  /\ \A f \in DOMAIN a.files :
       /\ b.files[f].success >= a.files[f].success
       /\ b.files[f].fail >= a.files[f].fail
  /\ DOMAIN a.functions \subseteq DOMAIN b.functions
  /\ \A k \in DOMAIN a.functions : b.functions[k].skips >= a.functions[k].skips

C29_EveryFileSelected == <>(discover_eligible \subseteq selected_ever)

\* the character at offset p of a text
RECURSIVE CharAt(_, _)
CharAt(t, p) == IF p < Head(t).n THEN Head(t).c ELSE CharAt(Tail(t), p - Head(t).n)

\* the start offset of the k-th chunk: 0, s, 2s, ... with s = max(1, size - overlap)
StartOf(k) ==
  (k - 1) * (IF chunk_size - chunk_overlap >= 1 THEN chunk_size - chunk_overlap ELSE 1)

ChunksAsStated ==
  IF chunk_in = <<>> THEN chunk_list = <<>>
  ELSE
    /\ chunk_list # <<>>
    /\ \A k \in 1..Len(chunk_list) :
         /\ TLen(chunk_list[k]) >= 1
         /\ TLen(chunk_list[k]) <= chunk_size
         /\ \A q \in 0..(TLen(chunk_list[k]) - 1) :
              /\ StartOf(k) + q < TLen(chunk_in)
              /\ CharAt(chunk_list[k], q) = CharAt(chunk_in, StartOf(k) + q)
         \* a chunk is shorter than size only where the text ends
         /\ TLen(chunk_list[k]) < chunk_size
              => StartOf(k) + TLen(chunk_list[k]) = TLen(chunk_in)
         \* the last chunk, and no chunk before it, reaches the end
         /\ (StartOf(k) + chunk_size >= TLen(chunk_in)) <=> (k = Len(chunk_list))
    /\ \A p \in 0..(TLen(chunk_in) - 1) :
         \E k \in 1..Len(chunk_list) :
            StartOf(k) <= p /\ p < StartOf(k) + TLen(chunk_list[k])
    /\ chunk_list = chunk_text(chunk_in, chunk_size, chunk_overlap)

\* C30: every call of chunk_text with size >= 1 and overlap >= 0 returns;
\* what it returns is no chunk for the empty text and otherwise chunks of at
\* most size characters that start at 0, s, 2s, ... with
\* s = max(1, size - overlap), cover the text in order, and end with the
\* first chunk that reaches the end of the text.
C30_ChunkTextReturnsCover ==
  /\ [](chunk_pc = "returned" => ChunksAsStated)
  /\ (chunk_pc = "loop") ~> (chunk_pc = "returned")

\* a call with overlap >= size has returned more chunks than one, the step
\* being one character
C30_Witness ==
  /\ chunk_pc = "returned"
  /\ chunk_overlap >= chunk_size
  /\ Len(chunk_list) >= 3
  /\ TLen(chunk_list[Len(chunk_list)]) = chunk_size

====
